---- MODULE Spec2Model ----
(***************************************************************************)
(* Flightbox: passive causality tracing.                                   *)
(*                                                                         *)
(* The module holds several state machines over one set of variables, one  *)
(* per part of the runtime:                                                *)
(*   SpecCtx      context propagation (AsyncLocalStorage carrier and the   *)
(*                browser call stack), packages/sdk/src/object.ts and      *)
(*                unnamed/part_010                                         *)
(*   SpecStack    the explicit call stack alone, in its two                *)
(*                implementations (inject of object.ts and the inline      *)
(*                stack handling of __flightbox_wrap in browser.ts)        *)
(*   SpecWrap     the instrumentation wrapper and the span lifecycle,      *)
(*                createWrap of packages/sdk/src/config.ts                 *)
(*   SpecBuf      the Node span buffer, packages/sdk/src/buffer.ts         *)
(*   SpecBrowser  the browser buffer, its WebSocket and the collector of   *)
(*                the dev server, object.ts and packages/unplugin vite.ts  *)
(*   SpecLineage  lineage stamps across two processes and the queries     *)
(*                over the persisted spans, config.ts and mcp-server      *)
(*   SpecHelpers  withLineage and runWithLineage of one process on every   *)
(*                kind of payload, config.ts                               *)
(*   SpecNest     wrapped functions calling wrapped functions, createWrap  *)
(*   SpecDir      the batch directory shared by the traced processes and   *)
(*                the query engine, buffer.ts and unnamed/part_020         *)
(*   SpecEnt      the entity store of one span and the choice of the       *)
(*                subject entity, createEntityStore of config.ts           *)
(*   SpecTimeline the entity timeline of the query tools, mcp-server       *)
(*   SpecOsc      oscillation detection of the query tools, mcp-server     *)
(*   SpecSer      the serializer and its limits, unnamed/part_023          *)
(*   SpecPq       overlapping drains on the shared connection of           *)
(*                flushToParquet, buffer.ts and packages/sdk/src/wrap.ts   *)
(*   SpecEs       entity events recorded under the active context,         *)
(*                createEntityTrackers and createEntityStore of config.ts  *)
(*   SpecRecent   the incremental fetch of the query tools, mcp-server     *)
(*   SpecBufLive  SpecBuf with the fairness of timers and flushes          *)
(*   SpecBudget   runWithLineage on stamps of senders with another hop     *)
(*                budget, config.ts                                        *)
(*   SpecTransport the sockets and the reconnect timer of the browser      *)
(*                transport, object.ts                                     *)
(* Each specification leaves the variables of the other parts untouched.   *)
(***************************************************************************)
EXTENDS Integers, Sequences, FiniteSets, TLC

\* ------------------------------------------------------------------------
\* Bounds
\* ------------------------------------------------------------------------
NumTasks == 2
MaxCtx == 4
MaxDepth == 2
MaxCalls == 1
MaxEvents == 3

\* ------------------------------------------------------------------------
\* Helpers on sequences
\* ------------------------------------------------------------------------
Range(s) == { s[i] : i \in DOMAIN s }

RemoveAt(s, i) == SubSeq(s, 1, i - 1) \o SubSeq(s, i + 1, Len(s))

Last(s) == s[Len(s)]

ButLast(s) == SubSeq(s, 1, Len(s) - 1)

\* ========================================================================
\* Part A. Context propagation
\* ========================================================================
VARIABLES
  strategy,   \* "als" | "stack" | "legacy": which ContextProvider is in use
  callStack,  \* the browser provider's module-level array of contexts
  alsStore,   \* AsyncLocalStorage: the store of each asynchronous chain
  frames,     \* per chain, its open inject calls [ctx, prior, async]
  status,     \* per chain: "idle" | "running" | "suspended"
  nextCtx,    \* next fresh SpanContext object
  obs         \* the last observation made by application code

ctxVars == <<strategy, callStack, alsStore, frames, status, nextCtx, obs>>

Tasks == 1..NumTasks
NoCtx == 0
NoObs == [kind |-> "none", task |-> 0, ctx |-> NoCtx, got |-> NoCtx, want |-> NoCtx]

\* extract(): AsyncLocalStorage.getStore() or the top of callStack
extract(t) ==
  IF strategy = "als" THEN alsStore[t]
  ELSE IF callStack = <<>> THEN NoCtx ELSE callStack[Len(callStack)]

\* popContext(ctx): remove the last entry identical to ctx, if any
popContext(stack, ctx) ==
  LET idx == { i \in DOMAIN stack : stack[i] = ctx } IN
  IF idx = {} THEN stack
  ELSE RemoveAt(stack, CHOOSE i \in idx : \A j \in idx : j <= i)

\* callStack.pop(): remove the top entry, whatever it is
stackPop(stack) == IF stack = <<>> THEN stack ELSE ButLast(stack)

\* the stack after a call with context ctx settled
\* inject (object.ts): popContext on every path
\* __flightbox_wrap (browser.ts): callStack.pop() on the synchronous paths,
\* popContext(ctx) in the promise callbacks
stackAfterSettle(stack, ctx, isAsync) ==
  CASE strategy = "stack" -> popContext(stack, ctx)
    [] strategy = "legacy" -> IF isAsync THEN popContext(stack, ctx) ELSE stackPop(stack)
    [] OTHER -> stack

AllAsync(t) == \A i \in DOMAIN frames[t] : frames[t][i].async

NoneRunning == \A t \in Tasks : status[t] # "running"

\* the event loop starts a new chain (an event handler, a timer callback)
Begin(t) ==
  /\ NoneRunning
  /\ status[t] = "idle"
  /\ frames[t] = <<>>
  /\ status' = [status EXCEPT ![t] = "running"]
  /\ alsStore' = [alsStore EXCEPT ![t] = NoCtx]
  /\ UNCHANGED <<strategy, callStack, frames, nextCtx, obs>>

\* inject(context, fn): fn starts running; an async fn can only be awaited
\* by a caller that is itself async
Inject(t, isAsync) ==
  /\ status[t] = "running"
  /\ nextCtx <= MaxCtx
  /\ Len(frames[t]) < MaxDepth
  /\ isAsync => AllAsync(t)
  /\ frames' = [frames EXCEPT ![t] =
        Append(@, [ctx |-> nextCtx, prior |-> extract(t), async |-> isAsync])]
  /\ callStack' = IF strategy = "als" THEN callStack ELSE Append(callStack, nextCtx)
  /\ alsStore' = IF strategy = "als" THEN [alsStore EXCEPT ![t] = nextCtx] ELSE alsStore
  /\ nextCtx' = nextCtx + 1
  /\ UNCHANGED <<strategy, status, obs>>

\* inject(context, asyncFn) whose promise the caller does not await: fn runs
\* to its first await and the caller goes on; the rest of fn is chain u
Spawn(t, u) ==
  /\ status[t] = "running"
  /\ status[u] = "idle"
  /\ frames[u] = <<>>
  /\ t # u
  /\ nextCtx <= MaxCtx
  /\ frames' = [frames EXCEPT ![u] =
        <<[ctx |-> nextCtx, prior |-> extract(t), async |-> TRUE]>>]
  /\ status' = [status EXCEPT ![u] = "suspended"]
  /\ callStack' = IF strategy = "als" THEN callStack ELSE Append(callStack, nextCtx)
  /\ alsStore' = IF strategy = "als" THEN [alsStore EXCEPT ![u] = nextCtx] ELSE alsStore
  /\ nextCtx' = nextCtx + 1
  /\ UNCHANGED <<strategy, obs>>

\* the body calls extract()
Extract(t) ==
  /\ status[t] = "running"
  /\ frames[t] # <<>>
  /\ obs' = [kind |-> "extract", task |-> t, ctx |-> Last(frames[t]).ctx,
             got |-> extract(t), want |-> Last(frames[t]).ctx]
  /\ UNCHANGED <<strategy, callStack, alsStore, frames, status, nextCtx>>

\* the body reaches an await: the thread is free for other chains
Suspend(t) ==
  /\ status[t] = "running"
  /\ frames[t] # <<>>
  /\ AllAsync(t)
  /\ status' = [status EXCEPT ![t] = "suspended"]
  /\ UNCHANGED <<strategy, callStack, alsStore, frames, nextCtx, obs>>

\* the awaited promise settled: the chain continues
Resume(t) ==
  /\ NoneRunning
  /\ status[t] = "suspended"
  /\ status' = [status EXCEPT ![t] = "running"]
  /\ UNCHANGED <<strategy, callStack, alsStore, frames, nextCtx, obs>>

\* the innermost injected body of chain t settles (return, throw, fulfil,
\* reject: the propagation code is the same on each) and its caller looks
\* at the context
Settle(t) ==
  /\ status[t] = "running"
  /\ frames[t] # <<>>
  /\ LET f == Last(frames[t])
         stk == stackAfterSettle(callStack, f.ctx, f.async)
         got == IF strategy = "als" THEN f.prior
                ELSE IF stk = <<>> THEN NoCtx ELSE stk[Len(stk)]
     IN /\ frames' = [frames EXCEPT ![t] = ButLast(@)]
        /\ callStack' = stk
        /\ alsStore' = IF strategy = "als" THEN [alsStore EXCEPT ![t] = f.prior] ELSE alsStore
        /\ obs' = [kind |-> "settle", task |-> t, ctx |-> f.ctx,
                   got |-> got, want |-> f.prior]
  /\ UNCHANGED <<strategy, status, nextCtx>>

\* the chain has nothing left to run
Finish(t) ==
  /\ status[t] = "running"
  /\ frames[t] = <<>>
  /\ status' = [status EXCEPT ![t] = "idle"]
  /\ UNCHANGED <<strategy, callStack, alsStore, frames, nextCtx, obs>>

\* ========================================================================
\* Part B. The instrumentation entry point: one wrapped call at a time
\* ========================================================================
VARIABLES
  cfgEnabled,           \* cfg.enabled
  spans,                \* the Span objects created so far, by span_id
  call,                 \* the wrapped call in progress
  annotationsBySpanId,  \* createAnnotationStore: "absent" | "empty" | "plain" | "bad"
  eventsBySpanId,       \* createEntityStore: open event lists
  lineageBySpanId,      \* createLineageStore: span ids with an open bucket
  handedOver,           \* what bufferSpan received, in order
  raised,               \* exceptions the tracing runtime threw into the application
  finalizeLog,          \* per span_id: the accumulators finalized, in order
  trackLog,             \* the trackEntity calls so far and the last one
  nextSpan              \* next span_id

wrapVars == <<cfgEnabled, spans, call, annotationsBySpanId, eventsBySpanId,
              lineageBySpanId, handedOver, raised, finalizeLog, trackLog,
              nextSpan>>

Null == "NULL"
Values == {"undefined", "null", "obj", "hostile"}
Kinds == {"return", "throw", "fulfil", "reject", "generator"}
NoParent == [trace_id |-> 0, span_id |-> 0]
SomeParent == [trace_id |-> 1, span_id |-> 90]
NoOutcome == [kind |-> "none", value |-> "undefined"]
IdleCall == [phase |-> "idle", enabled |-> FALSE, kind |-> "return", value |-> "undefined",
             receiver |-> "objA", args |-> <<>>, fnLength |-> 0, wrappedLength |-> 0,
             span |-> 0, invoked |-> 0, thisSeen |-> "none", argsSeen |-> <<>>,
             outcome |-> NoOutcome]

\* serialize(value): undefined gives null, a value whose rendering throws
\* gives null, everything else a JSON text
serialize(v) ==
  CASE v = "undefined" -> Null
    [] v = "hostile" -> Null
    [] v = "null" -> "'null'"
    [] v = "obj" -> "'{obj}'"
    [] v = "TypeError" -> "'{name:TypeError}'"
    [] v = "[Generator]" -> "'[Generator]'"
    [] OTHER -> "'?'"

\* createSpan(meta, parent, args)
createSpan(sid, parent) ==
  [span_id |-> sid,
   trace_id |-> IF parent = NoParent THEN 100 + sid ELSE parent.trace_id,
   parent_id |-> parent.span_id,
   output |-> Null, error |-> Null, ended |-> FALSE,
   tags |-> [annotations |-> "none", entities |-> <<>>],
   finalized |-> 0, handed |-> 0, touchedAfterHandover |-> FALSE]

\* completeSpan(span, result)
completeSpan(sp, result) ==
  [sp EXCEPT !.ended = TRUE, !.output = serialize(result), !.finalized = @ + 1,
             !.touchedAfterHandover = @ \/ sp.handed > 0]

\* failSpan(span, err)
failSpan(sp, err) ==
  [sp EXCEPT !.ended = TRUE, !.error = serialize(err), !.finalized = @ + 1,
             !.touchedAfterHandover = @ \/ sp.handed > 0]

\* annotationStore.finalize(span): JSON.stringify(tags) throws a TypeError
\* on a BigInt or circular annotation value; the store entry is deleted
\* before that
annotationFinalizeThrows(ann) == ann = "bad"

annotationFinalize(sp, ann) ==
  IF ann = "plain"
  THEN [sp EXCEPT !.tags.annotations = "plain",
                  !.touchedAfterHandover = @ \/ sp.handed > 0]
  ELSE sp

\* entityStore.finalizeTracking(span)
entityFinalize(sp, events) ==
  IF events = <<>> THEN sp
  ELSE [sp EXCEPT !.tags.entities = @ \o events,
                  !.touchedAfterHandover = @ \/ sp.handed > 0]

\* bufferSpan(span), seen from the span
markHanded(sp) == [sp EXCEPT !.handed = @ + 1]

\* the catch block of the wrapper: failSpan, finalize, bufferSpan, rethrow
\* ann is what the annotation store holds for the span at that point
catchPath(sp, err, ann, events) ==
  LET s1 == failSpan(sp, err) IN
  IF annotationFinalizeThrows(ann)
  THEN [span |-> s1, handed |-> FALSE, tracked |-> TRUE,
        outcome |-> [kind |-> "throw", value |-> "TypeError"], fault |-> "TypeError",
        order |-> <<"annotations">>]
  ELSE [span |-> markHanded(entityFinalize(annotationFinalize(s1, ann), events)),
        handed |-> TRUE, tracked |-> FALSE,
        outcome |-> [kind |-> "throw", value |-> err], fault |-> "none",
        order |-> <<"annotations", "entities", "lineage">>]

\* the try block after fn returned result synchronously
tryPath(sp, result, recorded, ann, events) ==
  LET s1 == completeSpan(sp, recorded) IN
  IF annotationFinalizeThrows(ann)
  THEN LET c == catchPath(s1, "TypeError", "absent", events)
       IN [c EXCEPT !.fault = "TypeError", !.order = <<"annotations">> \o @]
  ELSE [span |-> markHanded(entityFinalize(annotationFinalize(s1, ann), events)),
        handed |-> TRUE, tracked |-> FALSE,
        outcome |-> [kind |-> "return", value |-> result], fault |-> "none",
        order |-> <<"annotations", "entities", "lineage">>]

\* what the unwrapped callable does
origOutcome(c) ==
  IF c.kind = "generator" THEN [kind |-> "return", value |-> "iterator"]
  ELSE [kind |-> c.kind, value |-> c.value]

\* MAX_EVENTS_PER_SPAN, scaled down from 200
MAX_EVENTS_PER_SPAN == 2

NoTrackLog ==
  [calls |-> 0, rejected |-> {}, ok |-> TRUE, before |-> <<>>, after |-> <<>>]

\* entityStore.trackEvent on the list of a span: a list that holds the cap
\* is left as it is and the call returns false
trackEventUncapped(events, ev) == [events |-> Append(events, ev), ok |-> TRUE]

trackEvent(events, ev) ==
  IF Len(events) >= MAX_EVENTS_PER_SPAN
    THEN [events |-> events, ok |-> FALSE]
    ELSE [events |-> Append(events, ev), ok |-> TRUE]

\* configure({ enabled })
Configure(b) ==
  /\ call.phase = "idle"
  /\ cfgEnabled # b
  /\ cfgEnabled' = b
  /\ UNCHANGED <<spans, call, annotationsBySpanId, eventsBySpanId, lineageBySpanId,
                 handedOver, raised, nextSpan, finalizeLog, trackLog>>

\* a wrapper that never takes the straight-through branch
passThroughNever(enabled) == FALSE

\* if (!cfg.enabled) return fn.apply(this, args)
passThrough(enabled) == ~enabled

\* a callable with its fn.length, and a call of it: receiver and arguments
Invocations == { [receiver |-> "objA", args |-> <<>>, len |-> 0],
                 [receiver |-> "objB", args |-> <<"a1">>, len |-> 2] }

\* the wrapped function is called: either straight through (disabled) or
\* span creation, begin of tracking and fn.apply(this, args) under the
\* injected context
WrapCall(kind, value, inv, parent) ==
  /\ call.phase = "idle"
  /\ nextSpan <= MaxCalls
  /\ kind = "generator" => value = "obj"
  /\ LET c0 == [IdleCall EXCEPT !.kind = kind, !.value = value,
                   !.receiver = inv.receiver, !.args = inv.args,
                   !.fnLength = inv.len, !.wrappedLength = inv.len,
                   !.enabled = cfgEnabled,
                   !.invoked = 1, !.thisSeen = inv.receiver, !.argsSeen = inv.args]
     IN IF passThrough(cfgEnabled)
        THEN /\ call' = [c0 EXCEPT !.phase = "done", !.outcome = origOutcome(c0)]
             /\ UNCHANGED <<spans, annotationsBySpanId, eventsBySpanId,
                            lineageBySpanId, finalizeLog, nextSpan>>
        ELSE /\ call' = [c0 EXCEPT !.phase = "running", !.span = nextSpan]
             /\ spans' = Append(spans, createSpan(nextSpan, parent))
             /\ annotationsBySpanId' = Append(annotationsBySpanId, "empty")
             /\ eventsBySpanId' = Append(eventsBySpanId, <<>>)
             /\ lineageBySpanId' = lineageBySpanId \cup {nextSpan}
             /\ finalizeLog' = Append(finalizeLog, <<>>)
             /\ nextSpan' = nextSpan + 1
  /\ UNCHANGED <<cfgEnabled, handedOver, raised, trackLog>>

\* annotate(key, value) in the body: the raw value is stored
Annotate(v) ==
  /\ call.phase \in {"running", "pending"}
  /\ annotationsBySpanId[call.span] # "absent"
  /\ LET cur == annotationsBySpanId[call.span]
         new == IF v = "bad" \/ cur = "bad" THEN "bad" ELSE "plain"
     IN /\ new # cur
        /\ annotationsBySpanId' = [annotationsBySpanId EXCEPT ![call.span] = new]
  /\ UNCHANGED <<cfgEnabled, spans, call, eventsBySpanId, lineageBySpanId,
                 handedOver, raised, nextSpan, finalizeLog, trackLog>>

\* trackEntity(input) in the body; the events are numbered by call
TrackEntity ==
  /\ call.phase \in {"running", "pending"}
  /\ trackLog.calls < MaxEvents
  /\ LET ev == trackLog.calls + 1
         r == trackEvent(eventsBySpanId[call.span], ev)
     IN /\ eventsBySpanId' = [eventsBySpanId EXCEPT ![call.span] = r.events]
        /\ trackLog' = [calls |-> ev,
                        rejected |-> IF r.ok THEN trackLog.rejected
                                             ELSE trackLog.rejected \cup {ev},
                        ok |-> r.ok,
                        before |-> eventsBySpanId[call.span],
                        after |-> r.events]
  /\ UNCHANGED <<cfgEnabled, spans, call, annotationsBySpanId, lineageBySpanId,
                 handedOver, raised, nextSpan, finalizeLog>>

\* withLineage(payload) in the body with a payload that is not a record
WithLineageNonRecord ==
  /\ call.phase \in {"running", "pending"}
  /\ "withLineage payload must be an object" \notin raised
  /\ raised' = raised \cup {"withLineage payload must be an object"}
  /\ UNCHANGED <<cfgEnabled, spans, call, annotationsBySpanId, eventsBySpanId,
                 lineageBySpanId, handedOver, nextSpan, finalizeLog, trackLog>>

\* fn returned, threw, or returned an iterator: the synchronous paths
FnSettlesSync ==
  /\ call.phase = "running"
  /\ call.kind \in {"return", "throw", "generator"}
  /\ LET sid == call.span
         ann == annotationsBySpanId[sid]
         evs == eventsBySpanId[sid]
         r == CASE call.kind = "return" -> tryPath(spans[sid], call.value, call.value, ann, evs)
                [] call.kind = "generator" -> tryPath(spans[sid], "iterator", "[Generator]", ann, evs)
                [] OTHER -> catchPath(spans[sid], call.value, ann, evs)
     IN /\ spans' = [spans EXCEPT ![sid] = r.span]
        /\ annotationsBySpanId' = [annotationsBySpanId EXCEPT ![sid] = "absent"]
        /\ eventsBySpanId' = IF r.tracked THEN eventsBySpanId
                             ELSE [eventsBySpanId EXCEPT ![sid] = <<>>]
        /\ lineageBySpanId' = IF r.tracked THEN lineageBySpanId ELSE lineageBySpanId \ {sid}
        /\ handedOver' = IF r.handed THEN Append(handedOver, sid) ELSE handedOver
        /\ raised' = IF r.fault # "none" THEN raised \cup {r.fault} ELSE raised
        /\ finalizeLog' = [finalizeLog EXCEPT ![sid] = @ \o r.order]
        /\ call' = [call EXCEPT !.phase = "done", !.outcome = r.outcome]
  /\ UNCHANGED <<cfgEnabled, nextSpan, trackLog>>

\* fn returned a thenable: the wrapper returns result.then(onOk, onErr)
FnReturnsPromise ==
  /\ call.phase = "running"
  /\ call.kind \in {"fulfil", "reject"}
  /\ call' = [call EXCEPT !.phase = "pending",
                          !.outcome = [kind |-> "promise", value |-> "undefined"]]
  /\ UNCHANGED <<cfgEnabled, spans, annotationsBySpanId, eventsBySpanId,
                 lineageBySpanId, handedOver, raised, nextSpan, finalizeLog, trackLog>>

\* the promise settles: complete or fail, finalize entity and lineage
\* tracking, bufferSpan; the annotation store is not finalized on this path
PromiseSettles ==
  /\ call.phase = "pending"
  /\ LET sid == call.span
         s1 == IF call.kind = "fulfil" THEN completeSpan(spans[sid], call.value)
               ELSE failSpan(spans[sid], call.value)
     IN /\ spans' = [spans EXCEPT ![sid] = markHanded(entityFinalize(s1, eventsBySpanId[sid]))]
        /\ eventsBySpanId' = [eventsBySpanId EXCEPT ![sid] = <<>>]
        /\ lineageBySpanId' = lineageBySpanId \ {sid}
        /\ handedOver' = Append(handedOver, sid)
        /\ finalizeLog' = [finalizeLog EXCEPT ![sid] = @ \o <<"entities", "lineage">>]
        /\ call' = [call EXCEPT !.phase = "done",
                                !.outcome = [kind |-> call.kind, value |-> call.value]]
  /\ UNCHANGED <<cfgEnabled, annotationsBySpanId, raised, nextSpan, trackLog>>

\* the caller has the result; the next wrapped call may start
NextCall ==
  /\ call.phase = "done"
  /\ call' = IdleCall
  /\ UNCHANGED <<cfgEnabled, spans, annotationsBySpanId, eventsBySpanId,
                 lineageBySpanId, handedOver, raised, nextSpan, finalizeLog, trackLog>>

\* ========================================================================
\* Part C. The Node span buffer (packages/sdk/src/buffer.ts)
\* ========================================================================
VARIABLES
  nodeBuffer,      \* buffer: the spans waiting for the next drain
  flushTimer,      \* TRUE while the interval timer of startFlushing is set
  isShuttingDown,  \* set by the first onShutdown
  inFlight,        \* the batches whose flushToParquet has not settled yet
  flushedOk,       \* the spans of the batches whose flush reported success
  lastFlush,       \* how the last settled flush ended: none | ok | failed
  nodeHanded       \* number of spans handed to bufferSpan so far

bufVars ==
  <<nodeBuffer, flushTimer, isShuttingDown, inFlight, flushedOk, lastFlush,
    nodeHanded>>

\* cfg.flushBatchSize, scaled down from its default of 1000
FlushBatchSize == 2
MaxSpans == 4

\* a catch block that only logs: the batch is not put back
requeueDropped(batch, buf) == buf

\* the catch block of drain: buffer.unshift(...batch)
requeue(batch, buf) == batch \o buf

\* drain() up to its await: an empty buffer returns at once, otherwise the
\* whole buffer becomes the batch and a fresh array takes its place
drain(buf, flights) ==
  IF buf = <<>>
    THEN [buffer |-> buf, inFlight |-> flights]
    ELSE [buffer |-> <<>>, inFlight |-> flights \cup {buf}]

NodeBufferSpan ==
  /\ nodeHanded < MaxSpans
  /\ LET span == nodeHanded + 1
         pushed == Append(nodeBuffer, span)
         d == IF Len(pushed) >= FlushBatchSize
                THEN drain(pushed, inFlight)
                ELSE [buffer |-> pushed, inFlight |-> inFlight]
     IN /\ nodeHanded' = span
        /\ nodeBuffer' = d.buffer
        /\ inFlight' = d.inFlight
  /\ UNCHANGED <<flushTimer, isShuttingDown, flushedOk, lastFlush>>

StartFlushing ==
  /\ ~flushTimer
  /\ flushTimer' = TRUE
  /\ UNCHANGED <<nodeBuffer, isShuttingDown, inFlight, flushedOk, lastFlush,
                 nodeHanded>>

TimerDrain ==
  /\ flushTimer
  /\ LET d == drain(nodeBuffer, inFlight)
     IN /\ nodeBuffer' = d.buffer
        /\ inFlight' = d.inFlight
  /\ UNCHANGED <<flushTimer, isShuttingDown, flushedOk, lastFlush, nodeHanded>>

OnShutdown ==
  /\ ~isShuttingDown
  /\ isShuttingDown' = TRUE
  /\ flushTimer' = FALSE
  /\ LET d == drain(nodeBuffer, inFlight)
     IN /\ nodeBuffer' = d.buffer
        /\ inFlight' = d.inFlight
  /\ UNCHANGED <<flushedOk, lastFlush, nodeHanded>>

FlushSucceeds(batch) ==
  /\ batch \in inFlight
  /\ inFlight' = inFlight \ {batch}
  /\ flushedOk' = flushedOk \cup Range(batch)
  /\ lastFlush' = "ok"
  /\ UNCHANGED <<nodeBuffer, flushTimer, isShuttingDown, nodeHanded>>

FlushFails(batch) ==
  /\ batch \in inFlight
  /\ inFlight' = inFlight \ {batch}
  /\ nodeBuffer' = requeue(batch, nodeBuffer)
  /\ lastFlush' = "failed"
  /\ UNCHANGED <<flushTimer, isShuttingDown, flushedOk, nodeHanded>>

\* ========================================================================
\* Part D. Browser buffer, WebSocket and the dev-server collector
\* (packages/sdk/src/object.ts, packages/unplugin/src/vite.ts)
\* ========================================================================
VARIABLES
  browserBuffer,   \* buffer of the browser runtime
  idleScheduled,   \* an idle callback for drainBuffer is pending
  ws,              \* "null" | "CONNECTING" | "OPEN"
  reconnectTimer,  \* the reconnect timeout is pending
  wire,            \* batches sent and not yet delivered to the collector
  writerBuffer,    \* ParquetWriter.buffer
  flushing,        \* ParquetWriter.flushing
  flushWaiting,    \* flush() calls past the guard, suspended at "await ready"
  flushJobs,       \* flush() calls inside the try block, with their batch
  spansTable,      \* the rows of the in-memory "spans" table
  parquet,         \* the spans written to some parquet file
  browserHanded    \* number of spans handed to the browser bufferSpan

browserVars ==
  <<browserBuffer, idleScheduled, ws, reconnectTimer, wire, writerBuffer,
    flushing, flushWaiting, flushJobs, spansTable, parquet, browserHanded>>

\* MAX_BATCH_SIZE (100) and FLUSH_BATCH_SIZE (1000), scaled down
BrowserBatchSize == 2
CollectorBatchSize == 2
MaxBrowserSpans == 3

\* drainBuffer(): what is left in the buffer and what went onto the wire;
\* a send that throws is swallowed by the empty catch block
drainBuffer(buf, sock, sent, sendOk) ==
  IF buf = <<>> \/ sock # "OPEN"
    THEN [buffer |-> buf, wire |-> sent]
    ELSE [buffer |-> <<>>,
          wire |-> IF sendOk THEN Append(sent, buf) ELSE sent]

BrowserBufferSpan(sendOk) ==
  /\ browserHanded < MaxBrowserSpans
  /\ LET span == browserHanded + 1
         pushed == Append(browserBuffer, span)
         d == drainBuffer(pushed, ws, wire, sendOk)
     IN /\ browserHanded' = span
        /\ IF Len(pushed) >= BrowserBatchSize
             THEN /\ browserBuffer' = d.buffer
                  /\ wire' = d.wire
                  /\ idleScheduled' = FALSE
             ELSE /\ browserBuffer' = pushed
                  /\ wire' = wire
                  /\ idleScheduled' = TRUE
  /\ UNCHANGED <<ws, reconnectTimer, writerBuffer, flushing, flushWaiting,
                 flushJobs, spansTable, parquet>>

IdleCallback(sendOk) ==
  /\ idleScheduled
  /\ LET d == drainBuffer(browserBuffer, ws, wire, sendOk)
     IN /\ browserBuffer' = d.buffer
        /\ wire' = d.wire
  /\ idleScheduled' = FALSE
  /\ UNCHANGED <<ws, reconnectTimer, writerBuffer, flushing, flushWaiting,
                 flushJobs, spansTable, parquet, browserHanded>>

WsOnOpen(sendOk) ==
  /\ ws = "CONNECTING"
  /\ ws' = "OPEN"
  /\ reconnectTimer' = FALSE
  /\ LET d == drainBuffer(browserBuffer, "OPEN", wire, sendOk)
     IN /\ browserBuffer' = d.buffer
        /\ wire' = d.wire
  /\ idleScheduled' = FALSE
  /\ UNCHANGED <<writerBuffer, flushing, flushWaiting, flushJobs, spansTable,
                 parquet, browserHanded>>

WsOnClose ==
  /\ ws # "null"
  /\ ws' = "null"
  /\ reconnectTimer' = TRUE
  /\ UNCHANGED <<browserBuffer, idleScheduled, wire, writerBuffer, flushing,
                 flushWaiting, flushJobs, spansTable, parquet, browserHanded>>

\* the reconnect timeout fires and runs connectWebSocket()
ReconnectFires(constructed) ==
  /\ reconnectTimer
  /\ IF ws # "null"
       THEN ws' = ws /\ reconnectTimer' = FALSE
       ELSE IF constructed
         THEN ws' = "CONNECTING" /\ reconnectTimer' = FALSE
         ELSE ws' = "null" /\ reconnectTimer' = TRUE
  /\ UNCHANGED <<browserBuffer, idleScheduled, wire, writerBuffer, flushing,
                 flushWaiting, flushJobs, spansTable, parquet, browserHanded>>

\* ParquetWriter.push for every span of a message, in order: the buffer
\* after the pushes and the number of flush() calls that passed the guard.
\* flushing cannot change during the loop: the calls suspend at their await.
RECURSIVE pushAll(_, _, _)
pushAll(batch, buf, isFlushing) ==
  IF batch = <<>>
    THEN [buffer |-> buf, calls |-> 0]
    ELSE LET pushed == Append(buf, Head(batch))
             rest == pushAll(Tail(batch), pushed, isFlushing)
             called == Len(pushed) >= CollectorBatchSize /\ ~isFlushing
         IN [buffer |-> rest.buffer,
             calls |-> rest.calls + (IF called THEN 1 ELSE 0)]

\* ws.on("message"): a macrotask, it runs when no continuation is queued
CollectorOnMessage ==
  /\ wire # <<>>
  /\ flushWaiting = 0
  /\ LET r == pushAll(Head(wire), writerBuffer, flushing)
     IN /\ writerBuffer' = r.buffer
        /\ flushWaiting' = r.calls
  /\ wire' = Tail(wire)
  /\ UNCHANGED <<browserBuffer, idleScheduled, ws, reconnectTimer, flushing,
                 flushJobs, spansTable, parquet, browserHanded>>

\* the interval timer of the writer calls flush()
CollectorTimer ==
  /\ flushWaiting = 0
  /\ writerBuffer # <<>>
  /\ ~flushing
  /\ flushWaiting' = 1
  /\ UNCHANGED <<browserBuffer, idleScheduled, ws, reconnectTimer, wire,
                 writerBuffer, flushing, flushJobs, spansTable, parquet,
                 browserHanded>>

\* flush() after "await this.ready": no second look at the guard
FlushResume ==
  /\ flushWaiting > 0
  /\ flushWaiting' = flushWaiting - 1
  /\ flushing' = TRUE
  /\ flushJobs' = Append(flushJobs, [batch |-> writerBuffer, stage |-> "append"])
  /\ writerBuffer' = <<>>
  /\ UNCHANGED <<browserBuffer, idleScheduled, ws, reconnectTimer, wire,
                 spansTable, parquet, browserHanded>>

FlushAppend(i) ==
  /\ flushWaiting = 0
  /\ flushJobs[i].stage = "append"
  /\ spansTable' = spansTable \cup Range(flushJobs[i].batch)
  /\ flushJobs' = [flushJobs EXCEPT ![i].stage = "copy"]
  /\ UNCHANGED <<browserBuffer, idleScheduled, ws, reconnectTimer, wire,
                 writerBuffer, flushing, flushWaiting, parquet, browserHanded>>

FlushCopy(i) ==
  /\ flushWaiting = 0
  /\ flushJobs[i].stage = "copy"
  /\ parquet' = parquet \cup spansTable
  /\ flushJobs' = [flushJobs EXCEPT ![i].stage = "delete"]
  /\ UNCHANGED <<browserBuffer, idleScheduled, ws, reconnectTimer, wire,
                 writerBuffer, flushing, flushWaiting, spansTable,
                 browserHanded>>

FlushDelete(i) ==
  /\ flushWaiting = 0
  /\ flushJobs[i].stage = "delete"
  /\ spansTable' = {}
  /\ flushJobs' = RemoveAt(flushJobs, i)
  /\ flushing' = FALSE
  /\ UNCHANGED <<browserBuffer, idleScheduled, ws, reconnectTimer, wire,
                 writerBuffer, flushWaiting, parquet, browserHanded>>

\* the awaited step of job i rejects: the catch block logs, finally resets
FlushThrows(i) ==
  /\ flushWaiting = 0
  /\ flushJobs' = RemoveAt(flushJobs, i)
  /\ flushing' = FALSE
  /\ UNCHANGED <<browserBuffer, idleScheduled, ws, reconnectTimer, wire,
                 writerBuffer, flushWaiting, spansTable, parquet,
                 browserHanded>>

\* ========================================================================
\* Part E. Lineage across processes (createLineageHelpers, createEntityStore
\* and createLineageStore of packages/sdk/src/config.ts)
\* ========================================================================
VARIABLES
  ctxStack,            \* per process: the contexts injected and not returned
  trackedSpans,        \* per process: span ids with a selectable entity event
  inboundHopBySpanId,  \* per process: the inbound hop stored for a span id
  inFlightMsgs,        \* stamped payloads sent and not yet received
  stampCount,          \* number of stamps made so far
  recvCount,           \* number of runWithLineage calls so far
  recvLog,             \* lineage_recv entries of the spans still open
  sendLog,             \* lineage_send entries of the spans still open
  lineageCfg,          \* cfg.lineage.requireBlastScope and cfg.blastScopeId
  acceptedBySpan,      \* per process and span id: the hops accepted, in order
  persistedSpans,      \* the spans finalized and handed to bufferSpan
  lobs,                \* what the last withLineage / runWithLineage call did
  nextLSpan            \* next span id

lineageVars ==
  <<ctxStack, trackedSpans, inboundHopBySpanId, inFlightMsgs, stampCount,
    recvCount, recvLog, sendLog, lineageCfg, acceptedBySpan, persistedSpans,
    lobs, nextLSpan>>

MaxLSpans == 2
MaxStamps == 2
MaxRecvs == 2
MaxLDepth == 2

\* the sending and the receiving process
Procs == {1, 2}

\* span id and trace id of a stamp made by a process outside the model
RemoteSpan == 0

LSpanIds == RemoteSpan..MaxLSpans

\* cfg.lineage.maxHops of defaultConfig, the same in every process
maxHops == 2

NoId == -1

\* the stamp a context causally follows: the hop that stamp carried and the
\* number of context replacements of the chain so far
NoCause == [hop |-> -1, n |-> 0]

\* undefined as a SpanContext and as a LineagePayload
NoPair == [trace_id |-> NoId, span_id |-> NoId]

NoLineage ==
  [trace_id |-> NoId, span_id |-> NoId, hop |-> 0, max_hops |-> 0,
   follows |-> NoCause]

NoLobs ==
  [op |-> "none", proc |-> 0, kind |-> "none", lineage |-> NoLineage,
   before |-> NoPair, hadBucket |-> FALSE, body |-> NoPair, stored |-> "none",
   blastOk |-> FALSE, subject |-> FALSE, hopBefore |-> 0,
   acceptedBefore |-> <<>>, bodyCalls |-> 0, bodyOutcome |-> "none",
   result |-> "none"]

\* provider.extract() of process p
active(p) == Last(ctxStack[p])

hasActive(p) == ctxStack[p] # <<>>

ctxOf(p) ==
  IF hasActive(p)
    THEN [trace_id |-> active(p).trace_id, span_id |-> active(p).span_id]
    ELSE NoPair

\* lineageBySpanId.get(spanId) of process p finds a bucket: tracking began
\* in createWrap and finalizeTracking has not deleted it
hasBucket(p, spanId) ==
  \E i \in DOMAIN ctxStack[p] :
    ctxStack[p][i].wrapped /\ ctxStack[p][i].span_id = spanId

\* lineageStore.getInboundHop: an absent entry reads as 0
getInboundHopAbsent(p, spanId) == 0

getInboundHop(p, spanId) == inboundHopBySpanId[p][spanId]

\* lineageStore.recordRecv and recordSend: without a bucket nothing is kept;
\* n tells the entries of one list apart
recordRecvAlways(log, p, spanId, lineage, evidence) ==
  log \cup {[proc |-> p, span_id |-> spanId, from_trace |-> lineage.trace_id,
             from_span |-> lineage.span_id, hop |-> lineage.hop,
             kind |-> evidence, n |-> recvCount]}

recordRecv(log, p, spanId, lineage, evidence) ==
  IF hasBucket(p, spanId)
    THEN log \cup {[proc |-> p, span_id |-> spanId,
                    from_trace |-> lineage.trace_id,
                    from_span |-> lineage.span_id, hop |-> lineage.hop,
                    kind |-> evidence, n |-> recvCount]}
    ELSE log

recordSend(log, p, spanId, lineage) ==
  IF hasBucket(p, spanId)
    THEN log \cup {[proc |-> p, span_id |-> spanId,
                    trace_id |-> lineage.trace_id, hop |-> lineage.hop,
                    max_hops |-> lineage.max_hops, n |-> stampCount]}
    ELSE log

\* the payloads a receiver can be handed: without the key, with a value
\* under the key that parseLineage rejects, or with a valid record, made by
\* withLineage here or by a process outside the model
\* a stamp of a sender whose budget is larger than the receiver's
LongBudgetStamp ==
  [trace_id |-> RemoteSpan, span_id |-> RemoteSpan, hop |-> maxHops,
   max_hops |-> maxHops + 1, follows |-> NoCause]

ExternalStamps ==
  { [trace_id |-> RemoteSpan, span_id |-> RemoteSpan, hop |-> h,
     max_hops |-> maxHops, follows |-> NoCause] : h \in 0..(maxHops + 1) }

Payloads ==
  {[kind |-> "nokey", lineage |-> NoLineage],
   [kind |-> "invalid", lineage |-> NoLineage]}
    \cup {[kind |-> "valid", lineage |-> l] :
            l \in inFlightMsgs \cup ExternalStamps \cup {LongBudgetStamp}}

\* the payloads of senders that share the receiver's budget
HelperPayloads == Payloads \ {[kind |-> "valid", lineage |-> LongBudgetStamp]}

\* valid payloads at or over the receiver's budget, from senders with the
\* same and with a larger budget, and the stamps made here
BudgetPayloads ==
  {[kind |-> "valid", lineage |-> l] :
     l \in inFlightMsgs \cup {LongBudgetStamp}
            \cup {x \in ExternalStamps : x.hop >= maxHops - 1}}

\* what the body fn of runWithLineage does when it is called
BodyOutcomes == {"returns", "throws"}

\* a budget test against cfg.lineage.maxHops of the receiver
overBudgetOwn(lineage) == lineage.hop >= maxHops

\* lineage.hop >= lineage.max_hops: the budget the stamp carries
overBudget(lineage) == lineage.hop >= lineage.max_hops

\* isRecord(payload) && hasOwnProperty(payload, key)
hasLineageKeyAlways(payload) == TRUE

hasLineageKey(payload) == payload.kind # "nokey"

parseLineage(payload) ==
  IF payload.kind = "valid" THEN payload.lineage ELSE NoLineage

\* configure({blastScopeId, lineage: {requireBlastScope}})
LineageConfigure(require, scope) ==
  /\ lineageCfg' = [requireBlastScope |-> require, blastScopeId |-> scope]
  /\ lineageCfg' # lineageCfg
  /\ UNCHANGED <<ctxStack, trackedSpans, inboundHopBySpanId, inFlightMsgs,
                 stampCount, recvCount, recvLog, sendLog, acceptedBySpan,
                 persistedSpans, lobs, nextLSpan>>

\* tid of createSpan: the trace id of the parent context, a fresh one for
\* a root span
tidFresh(p, sid) == sid

tid(p, sid) == IF hasActive(p) THEN active(p).trace_id ELSE sid

\* a wrapped function is called: createWrap makes a fresh span under the
\* active context and begins entity and lineage tracking for it
LineageWrapCall(p) ==
  /\ nextLSpan <= MaxLSpans
  /\ Len(ctxStack[p]) < MaxLDepth
  /\ LET sid == nextLSpan
         frame == [trace_id |-> tid(p, sid),
                   span_id |-> sid,
                   parent_id |-> IF hasActive(p) THEN active(p).span_id ELSE NoId,
                   wrapped |-> TRUE,
                   cause |-> IF hasActive(p) THEN active(p).cause ELSE NoCause]
     IN /\ ctxStack' = [ctxStack EXCEPT ![p] = Append(@, frame)]
        /\ trackedSpans' = [trackedSpans EXCEPT ![p] = @ \ {sid}]
        /\ nextLSpan' = sid + 1
  /\ UNCHANGED <<inboundHopBySpanId, inFlightMsgs, stampCount, recvCount,
                 recvLog, sendLog, lineageCfg, acceptedBySpan, persistedSpans,
                 lobs>>

\* trackEntity: the event goes to the list of the active span id, which is
\* created when missing
LineageTrackEntity(p) ==
  /\ hasActive(p)
  /\ trackedSpans' = [trackedSpans EXCEPT ![p] = @ \cup {active(p).span_id}]
  /\ UNCHANGED <<ctxStack, inboundHopBySpanId, inFlightMsgs, stampCount,
                 recvCount, recvLog, sendLog, lineageCfg, acceptedBySpan,
                 persistedSpans, lobs, nextLSpan>>

\* withLineage(payload): a payload that is not a record makes it throw.  A
\* record payload comes back unchanged without an active context, without
\* the required blast scope or without a selectable subject; otherwise it
\* is stamped, the stamp is recorded as sent and the application sends the
\* payload
withLineage(p, isRecord) ==
  /\ stampCount < MaxStamps
  /\ LET blastOk == ~(lineageCfg.requireBlastScope /\ ~lineageCfg.blastScopeId)
         subject == hasActive(p) /\ active(p).span_id \in trackedSpans[p]
         stamped == isRecord /\ hasActive(p) /\ blastOk /\ subject
         lineage == IF stamped
                      THEN [trace_id |-> active(p).trace_id,
                            span_id |-> active(p).span_id,
                            hop |-> getInboundHop(p, active(p).span_id),
                            max_hops |-> maxHops,
                            follows |-> active(p).cause]
                      ELSE NoLineage
         sent == IF stamped
                   THEN recordSend(sendLog, p, active(p).span_id, lineage)
                   ELSE sendLog
     IN /\ sendLog' = sent
        /\ inFlightMsgs' = IF stamped THEN inFlightMsgs \cup {lineage}
                                      ELSE inFlightMsgs
        /\ stampCount' = IF stamped THEN stampCount + 1 ELSE stampCount
        /\ lobs' = [op |-> "stamp", proc |-> p,
                    kind |-> IF ~isRecord THEN "throws"
                             ELSE IF stamped THEN "stamped" ELSE "unchanged",
                    lineage |-> lineage,
                    before |-> ctxOf(p),
                    hadBucket |-> hasActive(p) /\ hasBucket(p, active(p).span_id),
                    body |-> NoPair,
                    stored |-> IF sent # sendLog THEN "sent" ELSE "none",
                    blastOk |-> blastOk,
                    subject |-> subject,
                    hopBefore |-> IF hasActive(p)
                                    THEN getInboundHop(p, active(p).span_id)
                                    ELSE 0,
                    acceptedBefore |-> IF hasActive(p)
                                         THEN acceptedBySpan[p][active(p).span_id]
                                         ELSE <<>>,
                    bodyCalls |-> 0,
                    bodyOutcome |-> "none",
                    result |-> "none"]
  /\ UNCHANGED <<ctxStack, trackedSpans, inboundHopBySpanId, recvCount, recvLog,
                 lineageCfg, acceptedBySpan, persistedSpans, nextLSpan>>

\* runWithLineage(payload, fn).  No valid record: a gap is recorded if the
\* key was there, fn runs in the unchanged context and its outcome is the
\* outcome of the call.  Over budget: a gap is recorded, then the same.
\* Otherwise the hop goes to the active span, the receive is recorded as
\* exact and fn runs under the context of the sender until LineageReturn.
runWithLineage(p, payload, outcome) ==
  /\ recvCount < MaxRecvs
  /\ payload \in Payloads
  /\ recvCount' = recvCount + 1
  /\ inFlightMsgs' = inFlightMsgs \ {payload.lineage}
  /\ LET lineage == parseLineage(payload)
         own == [NoLineage EXCEPT !.trace_id = ctxOf(p).trace_id,
                                  !.span_id = ctxOf(p).span_id]
         accepted == lineage # NoLineage /\ ~overBudget(lineage)
         evidence == IF accepted THEN "exact" ELSE "gap"
         rec == IF lineage = NoLineage THEN own ELSE lineage
         log == IF hasActive(p) /\ (lineage # NoLineage \/ hasLineageKey(payload))
                  THEN recordRecv(recvLog, p, active(p).span_id, rec, evidence)
                  ELSE recvLog
     IN /\ recvLog' = log
        /\ IF accepted
             THEN /\ Len(ctxStack[p]) < MaxLDepth
                  /\ IF hasActive(p)
                       THEN /\ inboundHopBySpanId' =
                                 [inboundHopBySpanId EXCEPT
                                    ![p][active(p).span_id] = lineage.hop + 1]
                            /\ acceptedBySpan' =
                                 [acceptedBySpan EXCEPT
                                    ![p][active(p).span_id] = Append(@, lineage.hop)]
                       ELSE UNCHANGED <<inboundHopBySpanId, acceptedBySpan>>
                  /\ ctxStack' = [ctxStack EXCEPT ![p] =
                       Append(@, [trace_id |-> lineage.trace_id,
                                  span_id |-> lineage.span_id,
                                  parent_id |-> NoId,
                                  wrapped |-> FALSE,
                                  cause |-> [hop |-> lineage.hop,
                                             n |-> lineage.follows.n + 1]])]
             ELSE UNCHANGED <<ctxStack, inboundHopBySpanId, acceptedBySpan>>
        /\ lobs' = [op |-> "recv", proc |-> p, kind |-> payload.kind,
                    lineage |-> lineage,
                    before |-> ctxOf(p),
                    hadBucket |-> hasActive(p) /\ hasBucket(p, active(p).span_id),
                    body |-> ctxOf(p)',
                    stored |-> IF log # recvLog THEN evidence ELSE "none",
                    blastOk |-> FALSE,
                    subject |-> FALSE,
                    hopBefore |-> IF hasActive(p)
                                    THEN getInboundHop(p, active(p).span_id)
                                    ELSE 0,
                    acceptedBefore |-> IF hasActive(p)
                                         THEN acceptedBySpan[p][active(p).span_id]
                                         ELSE <<>>,
                    bodyCalls |-> 1,
                    bodyOutcome |-> IF accepted THEN "pending" ELSE outcome,
                    result |-> IF accepted THEN "pending" ELSE outcome]
  /\ UNCHANGED <<trackedSpans, stampCount, sendLog, lineageCfg, persistedSpans,
                 nextLSpan>>

\* the innermost call of process p returns: a wrapped call finalizes its
\* span (entity and lineage tracking are deleted, the span goes to
\* bufferSpan with its received records in its tags), a lineage body only
\* leaves its context
LineageReturn(p) ==
  /\ hasActive(p)
  /\ ctxStack' = [ctxStack EXCEPT ![p] = ButLast(@)]
  /\ IF active(p).wrapped
       THEN LET sid == active(p).span_id
                mine(r) == r.proc = p /\ r.span_id = sid
            IN /\ trackedSpans' = [trackedSpans EXCEPT ![p] = @ \ {sid}]
               /\ inboundHopBySpanId' = [inboundHopBySpanId EXCEPT ![p][sid] = 0]
               /\ acceptedBySpan' = [acceptedBySpan EXCEPT ![p][sid] = <<>>]
               /\ recvLog' = { r \in recvLog : ~mine(r) }
               /\ sendLog' = { r \in sendLog : ~mine(r) }
               /\ persistedSpans' = persistedSpans \cup
                    {[span_id |-> sid, trace_id |-> active(p).trace_id,
                      parent_id |-> active(p).parent_id, proc |-> p,
                      lineage_recv |-> { r \in recvLog : mine(r) }]}
       ELSE UNCHANGED <<trackedSpans, inboundHopBySpanId, acceptedBySpan,
                        recvLog, sendLog, persistedSpans>>
  /\ UNCHANGED <<inFlightMsgs, stampCount, recvCount, lineageCfg, lobs,
                 nextLSpan>>

\* ========================================================================
\* Part F. Wrapped functions calling wrapped functions (createWrap of
\* packages/sdk/src/config.ts, synchronous callables)
\* ========================================================================
VARIABLES
  nest,         \* the wrapped calls in progress, outermost first
  unwinding,    \* the value being thrown up the stack, "none" if none
  nestHanded,   \* the spans bufferSpan received, in order
  nestCaller,   \* what the caller of the outermost call got
  episode,      \* the calls, returns and first throw since the last root call
  nestNext      \* next span_id

nestVars == <<nest, unwinding, nestHanded, nestCaller, episode, nestNext>>

MaxNest == 3
MaxNestCalls == 3

\* what a body can throw
Thrown == {"obj", "undefined"}

NoEpisode == [calls |-> 0, returns |-> 0, thrown |-> "none"]

\* provider.extract() at the call of a wrapped function
nestParent ==
  IF nest = <<>>
    THEN NoParent
    ELSE [trace_id |-> Last(nest).span.trace_id, span_id |-> Last(nest).span.span_id]

\* a wrapped function is called, from the application or from the body of
\* the innermost wrapped call
NestCall ==
  /\ unwinding = "none"
  /\ Len(nest) < MaxNest
  /\ nestNext <= MaxNestCalls
  /\ nest' = Append(nest, [span |-> createSpan(nestNext, nestParent), ann |-> "empty"])
  /\ nestNext' = nestNext + 1
  /\ episode' = IF nest = <<>> THEN [NoEpisode EXCEPT !.calls = 1]
                               ELSE [episode EXCEPT !.calls = @ + 1]
  /\ nestCaller' = IF nest = <<>> THEN NoOutcome ELSE nestCaller
  /\ UNCHANGED <<unwinding, nestHanded>>

\* annotate(key, value) in the innermost body
NestAnnotate(v) ==
  /\ unwinding = "none"
  /\ nest # <<>>
  /\ LET cur == Last(nest).ann
         new == IF v = "bad" \/ cur = "bad" THEN "bad" ELSE "plain"
     IN /\ new # cur
        /\ nest' = [nest EXCEPT ![Len(nest)].ann = new]
  /\ UNCHANGED <<unwinding, nestHanded, nestCaller, episode, nestNext>>

\* the innermost wrapper has the outcome r of its try or catch block: the
\* span is handed over or not, the call is over, and the outcome goes to
\* the calling body or to the caller of the outermost call
nestSettle(r) ==
  /\ nest' = ButLast(nest)
  /\ nestHanded' = IF r.handed THEN Append(nestHanded, r.span) ELSE nestHanded
  /\ unwinding' = IF r.outcome.kind = "throw" /\ Len(nest) > 1
                    THEN r.outcome.value ELSE "none"
  /\ nestCaller' = IF Len(nest) = 1 THEN r.outcome ELSE nestCaller

\* the innermost body throws v
NestThrow(v) ==
  /\ unwinding = "none"
  /\ nest # <<>>
  /\ nestSettle(catchPath(Last(nest).span, v, Last(nest).ann, <<>>))
  /\ episode' = IF episode.thrown = "none" THEN [episode EXCEPT !.thrown = v]
                                           ELSE episode
  /\ UNCHANGED nestNext

\* the call made by the innermost body threw and the body does not catch
NestPropagate ==
  /\ unwinding # "none"
  /\ nest # <<>>
  /\ nestSettle(catchPath(Last(nest).span, unwinding, Last(nest).ann, <<>>))
  /\ UNCHANGED <<episode, nestNext>>

\* the innermost body returns v
NestReturn(v) ==
  /\ unwinding = "none"
  /\ nest # <<>>
  /\ nestSettle(tryPath(Last(nest).span, v, v, Last(nest).ann, <<>>))
  /\ episode' = [episode EXCEPT !.returns = @ + 1]
  /\ UNCHANGED nestNext

\* ========================================================================
\* Part G. The batch directory shared by the traced processes and the query
\* engine (buffer.ts startFlushing/cleanTracesDir, flushToParquet, and
\* cleanParquetFiles/query of the query engine)
\* ========================================================================
VARIABLES
  tracesDir,     \* the .parquet files in cfg.tracesDir
  dirStarted,    \* per process: startFlushing has set its timer
  dirCounter,    \* per process: _counter of flushToParquet
  dirWritten,    \* every file a flushToParquet has written so far
  queryRows,     \* the rows the last query read from the directory
  queryCount     \* number of queries run so far

dirVars ==
  <<tracesDir, dirStarted, dirCounter, dirWritten, queryRows, queryCount>>

MaxFiles == 2
MaxBatch == 2
MaxQueries == 2

\* the rows of one batch file: one row per span of the batch
rowsOf(f) == { <<f.pid, f.n, k>> : k \in 1..f.size }

\* cleanTracesDir: unlinkSync of every *.parquet file of the directory
cleanTracesDir(files) == {}

\* cleanParquetFiles: unlinkSync of the 0-byte files and of the files whose
\* mtime is before the retention cutoff
cleanParquetFiles(files) == { f \in files : ~(f.size = 0 \/ f.expired) }

\* fromSpans: read_parquet over the glob of the directory
fromSpans(files) == UNION { rowsOf(f) : f \in files }

\* startFlushing of process p: wipes the directory, then sets the timer
DirStartFlushing(p) ==
  /\ ~dirStarted[p]
  /\ tracesDir' = cleanTracesDir(tracesDir)
  /\ dirStarted' = [dirStarted EXCEPT ![p] = TRUE]
  /\ UNCHANGED <<dirCounter, dirWritten, queryRows, queryCount>>

\* flushToParquet of process p with a batch of size spans: a new file named
\* after the clock, the pid and the counter
DirFlushToParquet(p, size) ==
  /\ dirStarted[p]
  /\ dirCounter[p] < MaxFiles
  /\ LET f == [pid |-> p, n |-> dirCounter[p], size |-> size, expired |-> FALSE]
     IN /\ tracesDir' = tracesDir \cup {f}
        /\ dirWritten' = dirWritten \cup {f}
  /\ dirCounter' = [dirCounter EXCEPT ![p] = @ + 1]
  /\ UNCHANGED <<dirStarted, queryRows, queryCount>>

\* time passes: the mtime of file f falls behind Date.now() - retentionMs
DirExpire(f) ==
  /\ f \in tracesDir
  /\ ~f.expired
  /\ tracesDir' = (tracesDir \ {f}) \cup {[f EXCEPT !.expired = TRUE]}
  /\ UNCHANGED <<dirStarted, dirCounter, dirWritten, queryRows, queryCount>>

\* query(sql): cleanParquetFiles(), then the statement reads the directory
DirQuery ==
  /\ queryCount < MaxQueries
  /\ tracesDir' = cleanParquetFiles(tracesDir)
  /\ queryRows' = fromSpans(tracesDir')
  /\ queryCount' = queryCount + 1
  /\ UNCHANGED <<dirStarted, dirCounter, dirWritten>>

\* ========================================================================
\* Part H. The entity store of one open span and the choice of the subject
\* entity (createEntityStore: trackEvent, selectTrackedEntity)
\* ========================================================================
VARIABLES
  entEvents,   \* eventsBySpanId.get(spanId): the events recorded so far
  entCalls,    \* number of trackEvent calls so far
  entObs       \* the last selectTrackedEntity call: its input and result

entVars == <<entEvents, entCalls, entObs>>

MaxTrackCalls == 3

\* the entity types a call site passes, with and without surrounding blanks
RawTypes == {"Order", " Order ", "User", "  "}
RawIds == {"undefined", "a", "b"}
\* cfg.entityCatalog.types as handed to selectTrackedEntity
TrackedTypeLists ==
  {<<>>, <<"Order">>, <<"User">>, <<"Cart">>, <<"Order", "User">>, <<"Cart", "Cart">>}

\* input.entity_type?.trim()
trim(t) ==
  CASE t = " Order " -> "Order"
    [] t = "  " -> ""
    [] OTHER -> t

NoSubject == [type |-> "none", id |-> "none"]
NoEntObs == [events |-> <<>>, trackedTypes |-> <<>>, result |-> NoSubject, n |-> 0]

\* the loop of selectTrackedEntity from index i down to the first event
RECURSIVE scanBack(_, _, _)
scanBack(events, i, whitelist) ==
  IF i < 1 THEN NoSubject
  ELSE IF whitelist # {} /\ events[i].entity_type \notin whitelist
    THEN scanBack(events, i - 1, whitelist)
    ELSE [type |-> events[i].entity_type, id |-> events[i].entity_id]

\* a selection that takes the earliest matching event
selectTrackedEntityFirst(events, trackedTypes) ==
  LET whitelist == Range(trackedTypes)
      ok == { i \in DOMAIN events :
                whitelist = {} \/ events[i].entity_type \in whitelist }
  IN IF ok = {} THEN NoSubject
     ELSE LET i == CHOOSE k \in ok : \A m \in ok : k <= m
          IN [type |-> events[i].entity_type, id |-> events[i].entity_id]

\* selectTrackedEntity(spanId, trackedTypes) on the list of the span
selectTrackedEntity(events, trackedTypes) ==
  IF events = <<>> THEN NoSubject
  ELSE scanBack(events, Len(events), Range(trackedTypes))

\* trackEvent(spanId, input): a blank type is refused, the type is stored
\* trimmed, the list is capped
EntTrackEvent(rawType, rawId) ==
  /\ entCalls < MaxTrackCalls
  /\ entCalls' = entCalls + 1
  /\ entEvents' =
       IF trim(rawType) = "" THEN entEvents
       ELSE trackEvent(entEvents,
                       [entity_type |-> trim(rawType), entity_id |-> rawId,
                        n |-> entCalls + 1]).events
  /\ UNCHANGED entObs

\* selectTrackedEntity is called (by withLineage) with the configured types
EntSelect(trackedTypes) ==
  /\ entObs' = [events |-> entEvents, trackedTypes |-> trackedTypes,
                result |-> selectTrackedEntity(entEvents, trackedTypes),
                n |-> entCalls]
  /\ UNCHANGED <<entEvents, entCalls>>

\* ========================================================================
\* Part I. The entity timeline of the query tools (flightboxEntityTimeline,
\* computeSnapshotDiffs) over the entity events of the persisted spans
\* ========================================================================
VARIABLES
  entityEvents,   \* the entity events recorded so far, each with its time
  enriched,       \* the timeline the last flightboxEntityTimeline returned
  tlQueries       \* number of timeline queries so far

tlVars == <<entityEvents, enriched, tlQueries>>

MaxTimeline == 3
MaxTlQueries == 1

NoFields == [k \in {} |-> "undefined"]

\* what a call site passes as snapshot: nothing, a plain object, an array
SnapshotInputs ==
  { [kind |-> "undefined", fields |-> NoFields],
    [kind |-> "object", fields |-> [k \in {"a"} |-> "1"]],
    [kind |-> "object", fields |-> [k \in {"a"} |-> "2"]],
    [kind |-> "object", fields |-> [k \in {"a", "b"} |-> "1"]],
    [kind |-> "array", fields |-> [k \in {"0"} |-> "1"]] }

\* what a call site passes as changes: nothing, a {field: {from, to}}
\* object, an array of field names
ChangesInputs ==
  { [kind |-> "undefined", entries |-> {}],
    [kind |-> "object", entries |-> {[key |-> "a", from |-> "1", to |-> "2"]}],
    [kind |-> "array", entries |-> {}] }

TlEntityIds == {"e1", "e2"}

\* serializeField on the way in and JSON.parse on the way out: undefined
\* is stored as no column value and loaded as null, every other value
\* comes back as the JSON value it was
loaded(v) == IF v.kind = "undefined" THEN [v EXCEPT !.kind = "null"] ELSE v

NullDiff == [kind |-> "null", entries |-> {}]
NoPrev == [kind |-> "none", fields |-> NoFields]

\* prevVal / currVal of one key
valueAt(obj, key) == IF key \in DOMAIN obj.fields THEN obj.fields[key] ELSE "undefined"

\* prevVal ?? null
orNull(v) == IF v = "undefined" THEN "null" ELSE v

\* the key-by-key comparison of two parsed snapshots
keyDiff(prev, current) ==
  LET allKeys == DOMAIN prev.fields \cup DOMAIN current.fields
      entries == { [key |-> key, from |-> orNull(valueAt(prev, key)),
                    to |-> orNull(valueAt(current, key))] :
                     key \in { k \in allKeys : valueAt(prev, k) # valueAt(current, k) } }
  IN IF entries = {} THEN NullDiff ELSE [kind |-> "object", entries |-> entries]

\* the body of events.map in computeSnapshotDiffs for one event: the diff
\* of the event and the map of previous snapshots after it
diffStep(ev, prevByEntity) ==
  LET entityKey == ev.entity_id IN
  IF ev.changes.kind = "object"
    THEN [diff |-> [kind |-> "object", entries |-> ev.changes.entries],
          prev |-> IF ev.snapshot.kind # "null"
                     THEN [prevByEntity EXCEPT ![entityKey] = ev.snapshot]
                     ELSE prevByEntity]
  ELSE IF ev.snapshot.kind # "object"
    THEN [diff |-> NullDiff, prev |-> prevByEntity]
  ELSE [diff |-> IF prevByEntity[entityKey] = NoPrev
                   THEN NullDiff
                   ELSE keyDiff(prevByEntity[entityKey], ev.snapshot),
        prev |-> [prevByEntity EXCEPT ![entityKey] = ev.snapshot]]

\* computeSnapshotDiffs(events): events.map with the running prevByEntity
RECURSIVE computeSnapshotDiffs(_, _, _)
computeSnapshotDiffs(events, at, prevByEntity) ==
  IF at > Len(events) THEN <<>>
  ELSE LET r == diffStep(events[at], prevByEntity)
       IN <<[at |-> events[at].at, entity_id |-> events[at].entity_id,
             snapshot |-> events[at].snapshot, changes |-> events[at].changes,
             diff |-> r.diff]>>
          \o computeSnapshotDiffs(events, at + 1, r.prev)

\* events.sort((a, b) => a.at - b.at)
sortByAt(S) ==
  CHOOSE f \in [1..Cardinality(S) -> S] :
    /\ \A x \in S : \E i \in DOMAIN f : f[i] = x
    /\ \A i \in DOMAIN f : \A j \in DOMAIN f : i < j => f[i].at <= f[j].at

\* a tracked call records an entity event; its span is persisted and the
\* event is loaded by loadEntityEvents
TlTrackEvent(entity_id, snapshot, changes) ==
  /\ Cardinality(entityEvents) < MaxTimeline
  /\ entityEvents' = entityEvents \cup
       {[at |-> Cardinality(entityEvents) + 1, entity_id |-> entity_id,
         snapshot |-> loaded(snapshot), changes |-> loaded(changes)]}
  /\ UNCHANGED <<enriched, tlQueries>>

\* flightboxEntityTimeline: sort by time, then computeSnapshotDiffs
TlEntityTimeline ==
  /\ tlQueries < MaxTlQueries
  /\ enriched' = computeSnapshotDiffs(sortByAt(entityEvents), 1,
                                      [e \in TlEntityIds |-> NoPrev])
  /\ tlQueries' = tlQueries + 1
  /\ UNCHANGED entityEvents

\* ========================================================================
\* Part J. Oscillation detection of the query tools (detectEntityOscillation
\* and detectSpanInputOscillation: LAG/LEAD over the time-ordered values)
\* ========================================================================
VARIABLES
  oscEvents,    \* the rows of `filtered`, in event_at order: entity and value
  oscResult,    \* the last answer: threshold, rows, and how many events it saw
  oscQueries    \* number of oscillation queries so far

oscVars == <<oscEvents, oscResult, oscQueries>>

MaxOscEvents == 5
MaxOscQueries == 1

OscEntityIds == {"e1", "e2"}
OscValues == {8, 9, 10}
\* params.min_flips
MinFlips == 0..4
\* SQL NULL of LAG and LEAD at the ends of a partition
SqlNull == 0

NoOscResult == [min_flips |-> 0, seen |-> 0, rows |-> {}]

\* the rows of one partition (PARTITION BY entity_id ORDER BY event_at)
partitionOf(events, entity_id) ==
  LET mine(ev) == ev.entity_id = entity_id IN SelectSeq(events, mine)

\* with_neighbors: each row with LAG(field_value) and LEAD(field_value)
withNeighbors(part) ==
  [i \in DOMAIN part |->
     [field_value |-> part[i].field_value,
      prev_value |-> IF i = 1 THEN SqlNull ELSE part[i - 1].field_value,
      next_value |-> IF i = Len(part) THEN SqlNull ELSE part[i + 1].field_value]]

\* a test that takes every change of value for a reversal
isReversalAnyChange(row) ==
  /\ row.prev_value # SqlNull /\ row.next_value # SqlNull
  /\ row.prev_value # row.field_value

\* the WHERE clause of `reversals`
isReversal(row) ==
  /\ row.prev_value # SqlNull /\ row.next_value # SqlNull
  /\ row.prev_value = row.next_value
  /\ row.prev_value # row.field_value

\* COUNT(*) of the reversals of one partition
flipCount(part) ==
  Cardinality({ i \in DOMAIN part : isReversal(withNeighbors(part)[i]) })

\* LIMIT 50 of the entity statement
OscLimit == 50

\* ORDER BY flip_count DESC LIMIT 50: the rows with the highest counts
topRows(groups) ==
  IF Cardinality(groups) <= OscLimit THEN groups
  ELSE CHOOSE top \in SUBSET groups :
         /\ Cardinality(top) = OscLimit
         /\ \A r \in top, q \in groups \ top : r.flip_count >= q.flip_count

\* GROUP BY entity_id HAVING COUNT(*) >= Math.max(1, min_flips): a group
\* exists only for an entity with at least one reversal
detectEntityOscillation(events, min_flips) ==
  LET floor == IF min_flips > 1 THEN min_flips ELSE 1
  IN topRows(
       { [entity_id |-> e, flip_count |-> flipCount(partitionOf(events, e))] :
           e \in { x \in OscEntityIds :
                     /\ flipCount(partitionOf(events, x)) >= 1
                     /\ flipCount(partitionOf(events, x)) >= floor } })

\* a span with a snapshot of the entity is persisted: one more row
OscTrackEvent(entity_id, v) ==
  /\ Len(oscEvents) < MaxOscEvents
  /\ oscEvents' = Append(oscEvents, [entity_id |-> entity_id, field_value |-> v])
  /\ UNCHANGED <<oscResult, oscQueries>>

\* flightboxOscillation({entity_type, field_path, min_flips})
OscDetect(min_flips) ==
  /\ oscQueries < MaxOscQueries
  /\ oscResult' = [min_flips |-> min_flips, seen |-> Len(oscEvents),
                   rows |-> detectEntityOscillation(oscEvents, min_flips)]
  /\ oscQueries' = oscQueries + 1
  /\ UNCHANGED oscEvents

\* ========================================================================
\* Part K. The serializer (serialize, serializeValue): depth and breadth
\* limits on arrays of primitives and arrays
\* ========================================================================
VARIABLES
  serInput,     \* the value of the last serialize call
  serOpts,      \* its limits
  serOutput,    \* what serializeValue returned for it
  serCalls      \* number of serialize calls so far

serVars == <<serInput, serOpts, serOutput, serCalls>>

MaxSerCalls == 1
\* longest array handed to serialize, and longest array inside it
MaxArrayLen == 3
MaxInnerLen == 2

\* values are trees: a primitive (number) or an array of values
prim(n) == [kind |-> "prim", v |-> n, items |-> <<>>]
arr(items) == [kind |-> "array", v |-> 0, items |-> items]
\* the string `... N more`
moreMarker(n) == [kind |-> "more", v |-> n, items |-> <<>>]
\* truncate(safeRepr(obj), maxReprLength): a string, the structure is gone
repr(obj) == [kind |-> "repr", v |-> Len(obj.items), items |-> <<>>]
NoValue == [kind |-> "none", v |-> 0, items |-> <<>>]

SeqsUpTo(S, n) == UNION { [1..k -> S] : k \in 0..n }

Primitives == { prim(n) : n \in 1..2 }
InnerArrays == { arr(s) : s \in SeqsUpTo(Primitives, MaxInnerLen) }
SerInputs == { arr(s) : s \in SeqsUpTo(Primitives \cup InnerArrays, MaxArrayLen) }
SerOptions == [maxDepth : 0..2, maxBreadth : 1..2]
NoOpts == [maxDepth |-> 0, maxBreadth |-> 1]

\* a slice that keeps every member
sliceAll(items, maxBreadth) == items

\* obj.slice(0, opts.maxBreadth)
slice(items, maxBreadth) ==
  SubSeq(items, 1, IF Len(items) < maxBreadth THEN Len(items) ELSE maxBreadth)

\* serializeValue(value, depth, opts, seen) on a tree
RECURSIVE serializeValue(_, _, _)
serializeValue(value, depth, opts) ==
  IF value.kind # "array" THEN value
  ELSE IF depth <= 0 THEN repr(value)
  ELSE LET kept == slice(value.items, opts.maxBreadth)
           items == [i \in DOMAIN kept |-> serializeValue(kept[i], depth - 1, opts)]
       IN arr(IF Len(value.items) > opts.maxBreadth
              THEN Append(items, moreMarker(Len(value.items) - opts.maxBreadth))
              ELSE items)

\* serialize(value, options)
Serialize(value, opts) ==
  /\ serCalls < MaxSerCalls
  /\ serInput' = value
  /\ serOpts' = opts
  /\ serOutput' = serializeValue(value, opts.maxDepth, opts)
  /\ serCalls' = serCalls + 1

\* ========================================================================
\* Part L. Node flush on the shared connection (drain of buffer.ts with the
\* flushToParquet that appends to, copies and clears one `spans` table)
\* ========================================================================
VARIABLES
  pqBuffer,     \* buffer of buffer.ts: sequence of span ids
  pqJobs,       \* the drains in flight: job -> its batch and where it stands
  pqTable,      \* rows of the `spans` table of the singleton connection
  pqFiles,      \* the row sets of the written batch files
  pqHanded      \* every span handed to bufferSpan

pqVars == <<pqBuffer, pqJobs, pqTable, pqFiles, pqHanded>>

MaxPqSpans == 3
PqJobs == 1..2
IdleJob == [batch |-> <<>>, pc |-> "idle"]

\* drain, up to its await: the buffer becomes the batch of a new flush
pqDrain(buf, jobs) ==
  IF buf = <<>> \/ \A j \in PqJobs : jobs[j].pc # "idle"
  THEN [buffer |-> buf, jobs |-> jobs]
  ELSE LET j == CHOOSE k \in PqJobs : jobs[k].pc = "idle"
       IN [buffer |-> <<>>,
           jobs |-> [jobs EXCEPT ![j] = [batch |-> buf, pc |-> "append"]]]

\* bufferSpan(span): push, and drain when the batch size is reached
PqBufferSpan ==
  /\ Cardinality(pqHanded) < MaxPqSpans
  /\ LET s == Cardinality(pqHanded) + 1
         pushed == Append(pqBuffer, s)
         after == IF Len(pushed) >= FlushBatchSize
                  THEN pqDrain(pushed, pqJobs)
                  ELSE [buffer |-> pushed, jobs |-> pqJobs]
     IN /\ \/ Len(pushed) < FlushBatchSize
           \/ \E j \in PqJobs : pqJobs[j].pc = "idle"
        /\ pqBuffer' = after.buffer
        /\ pqJobs' = after.jobs
        /\ pqHanded' = pqHanded \cup {s}
  /\ UNCHANGED <<pqTable, pqFiles>>

\* the interval timer fires: drain
PqTimerDrain ==
  /\ pqBuffer # <<>>
  /\ \E j \in PqJobs : pqJobs[j].pc = "idle"
  /\ LET after == pqDrain(pqBuffer, pqJobs)
     IN /\ pqBuffer' = after.buffer
        /\ pqJobs' = after.jobs
  /\ UNCHANGED <<pqTable, pqFiles, pqHanded>>

\* the appender rows of one flush reach the table (flushSync)
PqAppend(j) ==
  /\ pqJobs[j].pc = "append"
  /\ pqTable' = pqTable \cup Range(pqJobs[j].batch)
  /\ pqJobs' = [pqJobs EXCEPT ![j].pc = "copy"]
  /\ UNCHANGED <<pqBuffer, pqFiles, pqHanded>>

\* COPY spans TO file: the file holds the rows the table has now
PqCopy(j) ==
  /\ pqJobs[j].pc = "copy"
  /\ pqFiles' = pqFiles \cup {pqTable}
  /\ pqJobs' = [pqJobs EXCEPT ![j].pc = "delete"]
  /\ UNCHANGED <<pqBuffer, pqTable, pqHanded>>

\* DELETE FROM spans: every row goes, then flushToParquet resolves
PqDelete(j) ==
  /\ pqJobs[j].pc = "delete"
  /\ pqTable' = {}
  /\ pqJobs' = [pqJobs EXCEPT ![j] = IdleJob]
  /\ UNCHANGED <<pqBuffer, pqFiles, pqHanded>>

\* a statement of the flush rejects: the catch of drain puts the batch back
PqFlushFails(j) ==
  /\ pqJobs[j].pc \in {"append", "copy", "delete"}
  /\ pqBuffer' = pqJobs[j].batch \o pqBuffer
  /\ pqJobs' = [pqJobs EXCEPT ![j] = IdleJob]
  /\ UNCHANGED <<pqTable, pqFiles, pqHanded>>

\* ========================================================================
\* Part M. Entity events by active context (createEntityTrackers.trackEntity
\* and the entity store), under wrapped calls, receiveInbound bodies and
\* continuations that run after their span
\* ========================================================================
VARIABLES
  esStack,         \* the contexts injected and not yet left: span ids
  esOpen,          \* spans opened by the wrapper and not yet finalized
  esEvents,        \* eventsBySpanId: span id -> list, or Absent
  esTags,          \* tags.entities of the finalized spans
  esContinuations, \* contexts captured by continuations still to run
  esRecorded,      \* events whose trackEntity call returned true
  esCalls          \* number of trackEntity calls so far

esVars == <<esStack, esOpen, esEvents, esTags, esContinuations, esRecorded, esCalls>>

MaxEsSpans == 2
MaxEsEvents == 2
MaxEsDepth == 2

\* span id carried by the stamp of a remote sender
EsRemoteSpan == 0
EsSpanIds == EsRemoteSpan..MaxEsSpans
\* no list under the key (events are numbered from 1)
Absent == <<0>>

\* eventsBySpanId.get(spanId) ?? a new list set into the map
esListOf(events, spanId) ==
  IF events[spanId] = Absent THEN <<>> ELSE events[spanId]

\* the wrapper opens a span: beginTracking, body runs under its context
EsWrapCall ==
  /\ Len(esStack) < MaxEsDepth
  /\ \E sid \in 1..MaxEsSpans :
       /\ sid \notin esOpen /\ sid \notin DOMAIN esTags
       /\ \A other \in 1..(sid - 1) : other \in esOpen \/ other \in DOMAIN esTags
       /\ esOpen' = esOpen \cup {sid}
       /\ esEvents' = [esEvents EXCEPT ![sid] = <<>>]
       /\ esStack' = Append(esStack, sid)
  /\ UNCHANGED <<esTags, esContinuations, esRecorded, esCalls>>

\* runWithLineage accepts a stamp: body runs under the sender's span id
EsReceiveInbound ==
  /\ Len(esStack) < MaxEsDepth
  /\ esStack' = Append(esStack, EsRemoteSpan)
  /\ UNCHANGED <<esOpen, esEvents, esTags, esContinuations, esRecorded,
                 esCalls>>

\* the body of runWithLineage returns
EsReceiveReturns ==
  /\ esStack # <<>> /\ Last(esStack) = EsRemoteSpan
  /\ esStack' = ButLast(esStack)
  /\ UNCHANGED <<esOpen, esEvents, esTags, esContinuations, esRecorded,
                 esCalls>>

\* the body starts work it does not wait for: the continuation keeps the
\* context that is active now
EsDetach ==
  /\ esStack # <<>>
  /\ Last(esStack) \notin esContinuations
  /\ esContinuations' = esContinuations \cup {Last(esStack)}
  /\ UNCHANGED <<esStack, esOpen, esEvents, esTags, esRecorded, esCalls>>

\* entityStore.trackEvent(ctx.span_id, input) with a non-empty entity type
esTrackEvent(spanId) ==
  /\ esCalls < MaxEsEvents
  /\ LET ev == esCalls + 1
         list == esListOf(esEvents, spanId)
     IN IF Len(list) >= MAX_EVENTS_PER_SPAN
        THEN /\ esEvents' = [esEvents EXCEPT ![spanId] = list]
             /\ UNCHANGED esRecorded
        ELSE /\ esEvents' = [esEvents EXCEPT ![spanId] = Append(list, ev)]
             /\ esRecorded' = esRecorded \cup {ev}
  /\ esCalls' = esCalls + 1

\* trackEntity(input) in the running body
EsTrackEntity ==
  /\ esStack # <<>>
  /\ esTrackEvent(Last(esStack))
  /\ UNCHANGED <<esStack, esOpen, esTags, esContinuations>>

\* trackEntity(input) in a continuation, under the context it kept
EsContinuationTracks(spanId) ==
  /\ spanId \in esContinuations
  /\ esTrackEvent(spanId)
  /\ esContinuations' = esContinuations \ {spanId}
  /\ UNCHANGED <<esStack, esOpen, esTags>>

\* the wrapped call settles: entityStore.finalizeTracking(span)
EsFinalize ==
  /\ esStack # <<>> /\ Last(esStack) \in esOpen
  /\ LET sid == Last(esStack)
     IN /\ esTags' = [x \in DOMAIN esTags \cup {sid} |->
                        IF x = sid THEN esListOf(esEvents, sid) ELSE esTags[x]]
        /\ esEvents' = [esEvents EXCEPT ![sid] = Absent]
        /\ esOpen' = esOpen \ {sid}
        /\ esStack' = ButLast(esStack)
  /\ UNCHANGED <<esContinuations, esRecorded, esCalls>>

\* ========================================================================
\* Part N. Incremental fetch (flightboxRecent) by a poller that passes the
\* previous next_cursor, while batches are being flushed
\* ========================================================================
VARIABLES
  rcPersisted,  \* the spans in the batch files: span_id and started_at
  rcCursor,     \* next_cursor of the last poll
  rcReceived,   \* every span the poller was given, in order
  rcLast,       \* the last poll: has_more and what was persisted then
  rcPolls       \* number of polls so far

rcVars == <<rcPersisted, rcCursor, rcReceived, rcLast, rcPolls>>

MaxRcSpans == 3
MaxRcPolls == 3
RcSpanIds == 1..MaxRcSpans
RcStartedAts == 1..2
RcLimits == 1..2

\* since_started_at: null
NoCursor == [since_started_at |-> 0, since_span_id |-> 0]
NoPoll == [has_more |-> TRUE, persisted |-> {}]

\* started_at ASC, span_id ASC
rcBefore(a, b) ==
  \/ a.started_at < b.started_at
  \/ a.started_at = b.started_at /\ a.span_id < b.span_id

\* started_at > since OR (started_at = since AND span_id > since_span_id)
afterCursor(s, cursor) ==
  \/ s.started_at > cursor.since_started_at
  \/ s.started_at = cursor.since_started_at /\ s.span_id > cursor.since_span_id

\* the rows of a set in (started_at, span_id) order
RECURSIVE rcSorted(_)
rcSorted(S) ==
  IF S = {} THEN <<>>
  ELSE LET first == CHOOSE a \in S : \A b \in S \ {a} : rcBefore(a, b)
       IN <<first>> \o rcSorted(S \ {first})

\* flightboxRecent({since_started_at, since_span_id, limit})
flightboxRecent(persisted, cursor, limit) ==
  LET rows == rcSorted({ s \in persisted : afterCursor(s, cursor) })
      items == SubSeq(rows, 1, IF Len(rows) < limit THEN Len(rows) ELSE limit)
  IN [spans |-> items,
      has_more |-> Len(items) = limit,
      next_cursor |-> IF items # <<>>
                      THEN [since_started_at |-> Last(items).started_at,
                            since_span_id |-> Last(items).span_id]
                      ELSE cursor]

\* a flush writes a batch file with one more span; a span is buffered when
\* it completes, so its started_at may lie before spans written earlier
RcFlush(span_id, at) ==
  /\ \A s \in rcPersisted : s.span_id # span_id
  /\ rcPersisted' = rcPersisted \cup {[span_id |-> span_id, started_at |-> at]}
  /\ UNCHANGED <<rcCursor, rcReceived, rcLast, rcPolls>>

\* the poller calls flightboxRecent with the cursor it was given last
RcPoll(limit) ==
  /\ rcPolls < MaxRcPolls
  /\ LET r == flightboxRecent(rcPersisted, rcCursor, limit)
     IN /\ rcReceived' = rcReceived \o r.spans
        /\ rcCursor' = r.next_cursor
        /\ rcLast' = [has_more |-> r.has_more, persisted |-> rcPersisted]
  /\ rcPolls' = rcPolls + 1
  /\ UNCHANGED rcPersisted

\* ========================================================================
\* Part O. The browser transport connection (connectWebSocket,
\* scheduleReconnect and configure of packages/sdk/src/object.ts), with
\* every socket the module has created
\* ========================================================================
VARIABLES
  trSockets,    \* readyState of every socket created so far
  trWs,         \* ws: the socket the module refers to, NoSocket for null
  trTimer,      \* reconnectTimer is not null
  trPending     \* number of reconnect timeouts set and neither fired nor cleared

trVars == <<trSockets, trWs, trTimer, trPending>>

MaxSockets == 4
SocketIds == 1..MaxSockets
NoSocket == 0

\* the sockets that are connecting or open
trLive(sockets) == { k \in SocketIds : sockets[k] \in {"CONNECTING", "OPEN"} }

\* scheduleReconnect(): nothing while a timer is set
scheduleReconnect(timer, pending) ==
  IF timer THEN [timer |-> timer, pending |-> pending]
  ELSE [timer |-> TRUE, pending |-> pending + 1]

\* ws?.readyState === OPEN || ws?.readyState === CONNECTING
connectGuard(sockets, wsRef) ==
  wsRef # NoSocket /\ sockets[wsRef] \in {"CONNECTING", "OPEN"}

\* connectWebSocket(): return under the guard; otherwise construct a socket
\* and refer to it, or schedule a reconnect when the constructor throws
connectWebSocket(sockets, wsRef, timer, pending, throws) ==
  IF connectGuard(sockets, wsRef)
  THEN [sockets |-> sockets, ws |-> wsRef, timer |-> timer, pending |-> pending]
  ELSE IF throws
  THEN [sockets |-> sockets, ws |-> wsRef,
        timer |-> scheduleReconnect(timer, pending).timer,
        pending |-> scheduleReconnect(timer, pending).pending]
  ELSE LET k == CHOOSE x \in SocketIds :
                  sockets[x] = "NONE" /\ \A y \in 1..(x - 1) : sockets[y] # "NONE"
       IN [sockets |-> [sockets EXCEPT ![k] = "CONNECTING"], ws |-> k,
           timer |-> timer, pending |-> pending]

\* the guard passes only while a socket is left to construct
trRoom(throws) ==
  \/ connectGuard(trSockets, trWs)
  \/ throws
  \/ \E x \in SocketIds : trSockets[x] = "NONE"

\* the import of the module, or configure({wsUrl}): connectWebSocket()
TrConnect(throws) ==
  /\ trRoom(throws)
  /\ LET r == connectWebSocket(trSockets, trWs, trTimer, trPending, throws)
     IN /\ trSockets' = r.sockets
        /\ trWs' = r.ws
        /\ trTimer' = r.timer
        /\ trPending' = r.pending
        /\ <<trSockets', trWs', trTimer'>> # <<trSockets, trWs, trTimer>>

\* onopen of socket k: the reconnect timer is cleared (drainBuffer, which
\* follows, touches the span buffer only)
TrOnOpen(k) ==
  /\ trSockets[k] = "CONNECTING"
  /\ trSockets' = [trSockets EXCEPT ![k] = "OPEN"]
  /\ trTimer' = FALSE
  /\ trPending' = IF trTimer THEN trPending - 1 ELSE trPending
  /\ UNCHANGED trWs

\* the closing handshake of socket k begins: readyState CLOSING, no event
TrClosing(k) ==
  /\ trSockets[k] = "OPEN"
  /\ trSockets' = [trSockets EXCEPT ![k] = "CLOSING"]
  /\ UNCHANGED <<trWs, trTimer, trPending>>

\* onclose of socket k: ws = null; scheduleReconnect()
TrOnClose(k) ==
  /\ trSockets[k] \in {"CONNECTING", "OPEN", "CLOSING"}
  /\ trSockets' = [trSockets EXCEPT ![k] = "CLOSED"]
  /\ trWs' = NoSocket
  /\ trTimer' = scheduleReconnect(trTimer, trPending).timer
  /\ trPending' = scheduleReconnect(trTimer, trPending).pending

\* the reconnect timeout fires: reconnectTimer = null; connectWebSocket()
TrTimerFires(throws) ==
  /\ trPending > 0 /\ trTimer
  /\ trRoom(throws)
  /\ LET r == connectWebSocket(trSockets, trWs, FALSE, trPending - 1, throws)
     IN /\ trSockets' = r.sockets
        /\ trWs' = r.ws
        /\ trTimer' = r.timer
        /\ trPending' = r.pending

\* ========================================================================
\* Specifications
\* ========================================================================
vars ==
  <<ctxVars, wrapVars, bufVars, browserVars, lineageVars, nestVars, dirVars,
    entVars, tlVars, oscVars, serVars, pqVars, esVars, rcVars, trVars>>

\* The state after the modules were loaded: no call open, nothing buffered.
\* S is the set of context providers the specification ranges over.
InitWith(S) ==
  /\ strategy \in S
  /\ callStack = <<>>
  /\ alsStore = [t \in Tasks |-> NoCtx]
  /\ frames = [t \in Tasks |-> <<>>]
  /\ status = [t \in Tasks |-> "idle"]
  /\ nextCtx = 1
  /\ obs = NoObs
  /\ cfgEnabled = TRUE
  /\ spans = <<>>
  /\ call = IdleCall
  /\ annotationsBySpanId = <<>>
  /\ eventsBySpanId = <<>>
  /\ lineageBySpanId = {}
  /\ handedOver = <<>>
  /\ raised = {}
  /\ finalizeLog = <<>>
  /\ trackLog = NoTrackLog
  /\ nextSpan = 1
  /\ nodeBuffer = <<>>
  /\ flushTimer = FALSE
  /\ isShuttingDown = FALSE
  /\ inFlight = {}
  /\ flushedOk = {}
  /\ lastFlush = "none"
  /\ nodeHanded = 0
  \* the state after the module was imported: connectWebSocket() ran once and
  \* either holds a connecting socket or, its constructor having thrown, a
  \* reconnect timer
  /\ browserBuffer = <<>>
  /\ idleScheduled = FALSE
  /\ \/ ws = "CONNECTING" /\ reconnectTimer = FALSE
     \/ ws = "null" /\ reconnectTimer = TRUE
  /\ wire = <<>>
  /\ writerBuffer = <<>>
  /\ flushing = FALSE
  /\ flushWaiting = 0
  /\ flushJobs = <<>>
  /\ spansTable = {}
  /\ parquet = {}
  /\ browserHanded = 0
  /\ ctxStack = [p \in Procs |-> <<>>]
  /\ trackedSpans = [p \in Procs |-> {}]
  /\ inboundHopBySpanId = [p \in Procs |-> [s \in LSpanIds |-> 0]]
  /\ inFlightMsgs = {}
  /\ stampCount = 0
  /\ recvCount = 0
  /\ recvLog = {}
  /\ sendLog = {}
  /\ lineageCfg = [requireBlastScope |-> TRUE, blastScopeId |-> FALSE]
  /\ acceptedBySpan = [p \in Procs |-> [s \in LSpanIds |-> <<>>]]
  /\ persistedSpans = {}
  /\ lobs = NoLobs
  /\ nextLSpan = 1
  /\ nest = <<>>
  /\ unwinding = "none"
  /\ nestHanded = <<>>
  /\ nestCaller = NoOutcome
  /\ episode = NoEpisode
  /\ nestNext = 1
  /\ tracesDir = {}
  /\ dirStarted = [p \in Procs |-> FALSE]
  /\ dirCounter = [p \in Procs |-> 0]
  /\ dirWritten = {}
  /\ queryRows = {}
  /\ queryCount = 0
  /\ entEvents = <<>>
  /\ entCalls = 0
  /\ entObs = NoEntObs
  /\ entityEvents = {}
  /\ enriched = <<>>
  /\ tlQueries = 0
  /\ oscEvents = <<>>
  /\ oscResult = NoOscResult
  /\ oscQueries = 0
  /\ serInput = NoValue
  /\ serOpts = NoOpts
  /\ serOutput = NoValue
  /\ serCalls = 0
  /\ pqBuffer = <<>>
  /\ pqJobs = [j \in PqJobs |-> IdleJob]
  /\ pqTable = {}
  /\ pqFiles = {}
  /\ pqHanded = {}
  /\ esStack = <<>>
  /\ esOpen = {}
  /\ esEvents = [x \in EsSpanIds |-> Absent]
  /\ esTags = <<>>
  /\ esContinuations = {}
  /\ esRecorded = {}
  /\ esCalls = 0
  /\ rcPersisted = {}
  /\ rcCursor = NoCursor
  /\ rcReceived = <<>>
  /\ rcLast = NoPoll
  /\ rcPolls = 0
  /\ trSockets = [k \in SocketIds |-> "NONE"]
  /\ trWs = NoSocket
  /\ trTimer = FALSE
  /\ trPending = 0

\* each part steps on its own and leaves the other parts as they are
CtxNext ==
  \/ \E t \in Tasks : Begin(t)
       /\ UNCHANGED <<wrapVars, bufVars, browserVars, lineageVars, nestVars,
                      dirVars, entVars, tlVars, oscVars, serVars, pqVars,
                      esVars, rcVars, trVars>>
  \/ \E t \in Tasks, a \in BOOLEAN : Inject(t, a)
       /\ UNCHANGED <<wrapVars, bufVars, browserVars, lineageVars, nestVars,
                      dirVars, entVars, tlVars, oscVars, serVars, pqVars,
                      esVars, rcVars, trVars>>
  \/ \E t \in Tasks, u \in Tasks : Spawn(t, u)
       /\ UNCHANGED <<wrapVars, bufVars, browserVars, lineageVars, nestVars,
                      dirVars, entVars, tlVars, oscVars, serVars, pqVars,
                      esVars, rcVars, trVars>>
  \/ \E t \in Tasks : Extract(t)
       /\ UNCHANGED <<wrapVars, bufVars, browserVars, lineageVars, nestVars,
                      dirVars, entVars, tlVars, oscVars, serVars, pqVars,
                      esVars, rcVars, trVars>>
  \/ \E t \in Tasks : Suspend(t)
       /\ UNCHANGED <<wrapVars, bufVars, browserVars, lineageVars, nestVars,
                      dirVars, entVars, tlVars, oscVars, serVars, pqVars,
                      esVars, rcVars, trVars>>
  \/ \E t \in Tasks : Resume(t)
       /\ UNCHANGED <<wrapVars, bufVars, browserVars, lineageVars, nestVars,
                      dirVars, entVars, tlVars, oscVars, serVars, pqVars,
                      esVars, rcVars, trVars>>
  \/ \E t \in Tasks : Settle(t)
       /\ UNCHANGED <<wrapVars, bufVars, browserVars, lineageVars, nestVars,
                      dirVars, entVars, tlVars, oscVars, serVars, pqVars,
                      esVars, rcVars, trVars>>
  \/ \E t \in Tasks : Finish(t)
       /\ UNCHANGED <<wrapVars, bufVars, browserVars, lineageVars, nestVars,
                      dirVars, entVars, tlVars, oscVars, serVars, pqVars,
                      esVars, rcVars, trVars>>

WrapNext ==
  \/ \E b \in BOOLEAN : Configure(b)
       /\ UNCHANGED <<ctxVars, bufVars, browserVars, lineageVars, nestVars,
                      dirVars, entVars, tlVars, oscVars, serVars, pqVars,
                      esVars, rcVars, trVars>>
  \/ \E k \in Kinds, v \in Values, inv \in Invocations,
          par \in {NoParent, SomeParent} : WrapCall(k, v, inv, par)
       /\ UNCHANGED <<ctxVars, bufVars, browserVars, lineageVars, nestVars,
                      dirVars, entVars, tlVars, oscVars, serVars, pqVars,
                      esVars, rcVars, trVars>>
  \/ \E v \in {"plain", "bad"} : Annotate(v)
       /\ UNCHANGED <<ctxVars, bufVars, browserVars, lineageVars, nestVars,
                      dirVars, entVars, tlVars, oscVars, serVars, pqVars,
                      esVars, rcVars, trVars>>
  \/ TrackEntity
       /\ UNCHANGED <<ctxVars, bufVars, browserVars, lineageVars, nestVars,
                      dirVars, entVars, tlVars, oscVars, serVars, pqVars,
                      esVars, rcVars, trVars>>
  \/ WithLineageNonRecord
       /\ UNCHANGED <<ctxVars, bufVars, browserVars, lineageVars, nestVars,
                      dirVars, entVars, tlVars, oscVars, serVars, pqVars,
                      esVars, rcVars, trVars>>
  \/ FnSettlesSync
       /\ UNCHANGED <<ctxVars, bufVars, browserVars, lineageVars, nestVars,
                      dirVars, entVars, tlVars, oscVars, serVars, pqVars,
                      esVars, rcVars, trVars>>
  \/ FnReturnsPromise
       /\ UNCHANGED <<ctxVars, bufVars, browserVars, lineageVars, nestVars,
                      dirVars, entVars, tlVars, oscVars, serVars, pqVars,
                      esVars, rcVars, trVars>>
  \/ PromiseSettles
       /\ UNCHANGED <<ctxVars, bufVars, browserVars, lineageVars, nestVars,
                      dirVars, entVars, tlVars, oscVars, serVars, pqVars,
                      esVars, rcVars, trVars>>
  \/ NextCall
       /\ UNCHANGED <<ctxVars, bufVars, browserVars, lineageVars, nestVars,
                      dirVars, entVars, tlVars, oscVars, serVars, pqVars,
                      esVars, rcVars, trVars>>

BufNext ==
  \/ NodeBufferSpan
       /\ UNCHANGED <<ctxVars, wrapVars, browserVars, lineageVars, nestVars,
                      dirVars, entVars, tlVars, oscVars, serVars, pqVars,
                      esVars, rcVars, trVars>>
  \/ StartFlushing
       /\ UNCHANGED <<ctxVars, wrapVars, browserVars, lineageVars, nestVars,
                      dirVars, entVars, tlVars, oscVars, serVars, pqVars,
                      esVars, rcVars, trVars>>
  \/ TimerDrain
       /\ UNCHANGED <<ctxVars, wrapVars, browserVars, lineageVars, nestVars,
                      dirVars, entVars, tlVars, oscVars, serVars, pqVars,
                      esVars, rcVars, trVars>>
  \/ OnShutdown
       /\ UNCHANGED <<ctxVars, wrapVars, browserVars, lineageVars, nestVars,
                      dirVars, entVars, tlVars, oscVars, serVars, pqVars,
                      esVars, rcVars, trVars>>
  \/ \E batch \in inFlight : FlushSucceeds(batch)
       /\ UNCHANGED <<ctxVars, wrapVars, browserVars, lineageVars, nestVars,
                      dirVars, entVars, tlVars, oscVars, serVars, pqVars,
                      esVars, rcVars, trVars>>
  \/ \E batch \in inFlight : FlushFails(batch)
       /\ UNCHANGED <<ctxVars, wrapVars, browserVars, lineageVars, nestVars,
                      dirVars, entVars, tlVars, oscVars, serVars, pqVars,
                      esVars, rcVars, trVars>>

BrowserNext ==
  \/ \E sendOk \in BOOLEAN : BrowserBufferSpan(sendOk)
       /\ UNCHANGED <<ctxVars, wrapVars, bufVars, lineageVars, nestVars,
                      dirVars, entVars, tlVars, oscVars, serVars, pqVars,
                      esVars, rcVars, trVars>>
  \/ \E sendOk \in BOOLEAN : IdleCallback(sendOk)
       /\ UNCHANGED <<ctxVars, wrapVars, bufVars, lineageVars, nestVars,
                      dirVars, entVars, tlVars, oscVars, serVars, pqVars,
                      esVars, rcVars, trVars>>
  \/ \E sendOk \in BOOLEAN : WsOnOpen(sendOk)
       /\ UNCHANGED <<ctxVars, wrapVars, bufVars, lineageVars, nestVars,
                      dirVars, entVars, tlVars, oscVars, serVars, pqVars,
                      esVars, rcVars, trVars>>
  \/ WsOnClose
       /\ UNCHANGED <<ctxVars, wrapVars, bufVars, lineageVars, nestVars,
                      dirVars, entVars, tlVars, oscVars, serVars, pqVars,
                      esVars, rcVars, trVars>>
  \/ \E constructed \in BOOLEAN : ReconnectFires(constructed)
       /\ UNCHANGED <<ctxVars, wrapVars, bufVars, lineageVars, nestVars,
                      dirVars, entVars, tlVars, oscVars, serVars, pqVars,
                      esVars, rcVars, trVars>>
  \/ CollectorOnMessage
       /\ UNCHANGED <<ctxVars, wrapVars, bufVars, lineageVars, nestVars,
                      dirVars, entVars, tlVars, oscVars, serVars, pqVars,
                      esVars, rcVars, trVars>>
  \/ CollectorTimer
       /\ UNCHANGED <<ctxVars, wrapVars, bufVars, lineageVars, nestVars,
                      dirVars, entVars, tlVars, oscVars, serVars, pqVars,
                      esVars, rcVars, trVars>>
  \/ FlushResume
       /\ UNCHANGED <<ctxVars, wrapVars, bufVars, lineageVars, nestVars,
                      dirVars, entVars, tlVars, oscVars, serVars, pqVars,
                      esVars, rcVars, trVars>>
  \/ \E i \in DOMAIN flushJobs : FlushAppend(i)
       /\ UNCHANGED <<ctxVars, wrapVars, bufVars, lineageVars, nestVars,
                      dirVars, entVars, tlVars, oscVars, serVars, pqVars,
                      esVars, rcVars, trVars>>
  \/ \E i \in DOMAIN flushJobs : FlushCopy(i)
       /\ UNCHANGED <<ctxVars, wrapVars, bufVars, lineageVars, nestVars,
                      dirVars, entVars, tlVars, oscVars, serVars, pqVars,
                      esVars, rcVars, trVars>>
  \/ \E i \in DOMAIN flushJobs : FlushDelete(i)
       /\ UNCHANGED <<ctxVars, wrapVars, bufVars, lineageVars, nestVars,
                      dirVars, entVars, tlVars, oscVars, serVars, pqVars,
                      esVars, rcVars, trVars>>
  \/ \E i \in DOMAIN flushJobs : FlushThrows(i)
       /\ UNCHANGED <<ctxVars, wrapVars, bufVars, lineageVars, nestVars,
                      dirVars, entVars, tlVars, oscVars, serVars, pqVars,
                      esVars, rcVars, trVars>>

LineageNext ==
  \/ \E require \in BOOLEAN, scope \in BOOLEAN : LineageConfigure(require, scope)
       /\ UNCHANGED <<ctxVars, wrapVars, bufVars, browserVars, nestVars,
                      dirVars, entVars, tlVars, oscVars, serVars, pqVars,
                      esVars, rcVars, trVars>>
  \/ \E p \in Procs : LineageWrapCall(p)
       /\ UNCHANGED <<ctxVars, wrapVars, bufVars, browserVars, nestVars,
                      dirVars, entVars, tlVars, oscVars, serVars, pqVars,
                      esVars, rcVars, trVars>>
  \/ \E p \in Procs : LineageTrackEntity(p)
       /\ UNCHANGED <<ctxVars, wrapVars, bufVars, browserVars, nestVars,
                      dirVars, entVars, tlVars, oscVars, serVars, pqVars,
                      esVars, rcVars, trVars>>
  \/ \E p \in Procs : \E isRecord \in BOOLEAN : withLineage(p, isRecord)
       /\ UNCHANGED <<ctxVars, wrapVars, bufVars, browserVars, nestVars,
                      dirVars, entVars, tlVars, oscVars, serVars, pqVars,
                      esVars, rcVars, trVars>>
  \/ \E p \in Procs : \E l \in inFlightMsgs : \E outcome \in BodyOutcomes :
          runWithLineage(p, [kind |-> "valid", lineage |-> l], outcome)
       /\ UNCHANGED <<ctxVars, wrapVars, bufVars, browserVars, nestVars,
                      dirVars, entVars, tlVars, oscVars, serVars, pqVars,
                      esVars, rcVars, trVars>>
  \/ \E p \in Procs : LineageReturn(p)
       /\ UNCHANGED <<ctxVars, wrapVars, bufVars, browserVars, nestVars,
                      dirVars, entVars, tlVars, oscVars, serVars, pqVars,
                      esVars, rcVars, trVars>>

\* one process calling the lineage helpers on every kind of payload
HelpersNext ==
  \/ \E require \in BOOLEAN, scope \in BOOLEAN : LineageConfigure(require, scope)
       /\ UNCHANGED <<ctxVars, wrapVars, bufVars, browserVars, nestVars,
                      dirVars, entVars, tlVars, oscVars, serVars, pqVars,
                      esVars, rcVars, trVars>>
  \/ LineageWrapCall(1)
       /\ UNCHANGED <<ctxVars, wrapVars, bufVars, browserVars, nestVars,
                      dirVars, entVars, tlVars, oscVars, serVars, pqVars,
                      esVars, rcVars, trVars>>
  \/ LineageTrackEntity(1)
       /\ UNCHANGED <<ctxVars, wrapVars, bufVars, browserVars, nestVars,
                      dirVars, entVars, tlVars, oscVars, serVars, pqVars,
                      esVars, rcVars, trVars>>
  \/ \E isRecord \in BOOLEAN : withLineage(1, isRecord)
       /\ UNCHANGED <<ctxVars, wrapVars, bufVars, browserVars, nestVars,
                      dirVars, entVars, tlVars, oscVars, serVars, pqVars,
                      esVars, rcVars, trVars>>
  \/ \E payload \in HelperPayloads : \E outcome \in BodyOutcomes :
          runWithLineage(1, payload, outcome)
       /\ UNCHANGED <<ctxVars, wrapVars, bufVars, browserVars, nestVars,
                      dirVars, entVars, tlVars, oscVars, serVars, pqVars,
                      esVars, rcVars, trVars>>
  \/ LineageReturn(1)
       /\ UNCHANGED <<ctxVars, wrapVars, bufVars, browserVars, nestVars,
                      dirVars, entVars, tlVars, oscVars, serVars, pqVars,
                      esVars, rcVars, trVars>>

\* one process receiving stamps of senders with its own and a larger budget
BudgetNext ==
  \/ \E require \in BOOLEAN, scope \in BOOLEAN : LineageConfigure(require, scope)
       /\ UNCHANGED <<ctxVars, wrapVars, bufVars, browserVars, nestVars,
                      dirVars, entVars, tlVars, oscVars, serVars, pqVars,
                      esVars, rcVars, trVars>>
  \/ LineageWrapCall(1)
       /\ UNCHANGED <<ctxVars, wrapVars, bufVars, browserVars, nestVars,
                      dirVars, entVars, tlVars, oscVars, serVars, pqVars,
                      esVars, rcVars, trVars>>
  \/ LineageTrackEntity(1)
       /\ UNCHANGED <<ctxVars, wrapVars, bufVars, browserVars, nestVars,
                      dirVars, entVars, tlVars, oscVars, serVars, pqVars,
                      esVars, rcVars, trVars>>
  \/ \E isRecord \in BOOLEAN : withLineage(1, isRecord)
       /\ UNCHANGED <<ctxVars, wrapVars, bufVars, browserVars, nestVars,
                      dirVars, entVars, tlVars, oscVars, serVars, pqVars,
                      esVars, rcVars, trVars>>
  \/ \E payload \in BudgetPayloads : \E outcome \in BodyOutcomes :
          runWithLineage(1, payload, outcome)
       /\ UNCHANGED <<ctxVars, wrapVars, bufVars, browserVars, nestVars,
                      dirVars, entVars, tlVars, oscVars, serVars, pqVars,
                      esVars, rcVars, trVars>>
  \/ LineageReturn(1)
       /\ UNCHANGED <<ctxVars, wrapVars, bufVars, browserVars, nestVars,
                      dirVars, entVars, tlVars, oscVars, serVars, pqVars,
                      esVars, rcVars, trVars>>

NestNext ==
  \/ NestCall
       /\ UNCHANGED <<ctxVars, wrapVars, bufVars, browserVars, lineageVars,
                      dirVars, entVars, tlVars, oscVars, serVars, pqVars,
                      esVars, rcVars, trVars>>
  \/ \E v \in {"plain", "bad"} : NestAnnotate(v)
       /\ UNCHANGED <<ctxVars, wrapVars, bufVars, browserVars, lineageVars,
                      dirVars, entVars, tlVars, oscVars, serVars, pqVars,
                      esVars, rcVars, trVars>>
  \/ \E v \in Thrown : NestThrow(v)
       /\ UNCHANGED <<ctxVars, wrapVars, bufVars, browserVars, lineageVars,
                      dirVars, entVars, tlVars, oscVars, serVars, pqVars,
                      esVars, rcVars, trVars>>
  \/ NestPropagate
       /\ UNCHANGED <<ctxVars, wrapVars, bufVars, browserVars, lineageVars,
                      dirVars, entVars, tlVars, oscVars, serVars, pqVars,
                      esVars, rcVars, trVars>>
  \/ \E v \in Values : NestReturn(v)
       /\ UNCHANGED <<ctxVars, wrapVars, bufVars, browserVars, lineageVars,
                      dirVars, entVars, tlVars, oscVars, serVars, pqVars,
                      esVars, rcVars, trVars>>

SpecCtx ==
  /\ InitWith({"als", "stack"})
  /\ [][CtxNext]_vars

SpecStack ==
  /\ InitWith({"stack", "legacy"})
  /\ [][CtxNext]_vars

SpecWrap ==
  /\ InitWith({"als"})
  /\ [][WrapNext]_vars

SpecBuf ==
  /\ InitWith({"als"})
  /\ [][BufNext]_vars

\* the steps of the Node buffer that happen by themselves: the interval
\* timer fires while it is set, a flush settles, and a write that is tried
\* again and again succeeds in the end (failures are transient)
BufTimerFires ==
  TimerDrain /\ UNCHANGED <<ctxVars, wrapVars, browserVars, lineageVars, nestVars, dirVars, entVars,
               tlVars, oscVars, serVars, pqVars, esVars, rcVars, trVars>>

BufFlushSettles ==
  \E batch \in inFlight : (FlushSucceeds(batch) \/ FlushFails(batch))
    /\ UNCHANGED <<ctxVars, wrapVars, browserVars, lineageVars, nestVars, dirVars, entVars,
               tlVars, oscVars, serVars, pqVars, esVars, rcVars, trVars>>

BufFlushSucceeds ==
  \E batch \in inFlight : FlushSucceeds(batch)
    /\ UNCHANGED <<ctxVars, wrapVars, browserVars, lineageVars, nestVars, dirVars, entVars,
               tlVars, oscVars, serVars, pqVars, esVars, rcVars, trVars>>

SpecBufLive ==
  /\ SpecBuf
  /\ WF_vars(BufTimerFires)
  /\ WF_vars(BufFlushSettles)
  /\ SF_vars(BufFlushSucceeds)

SpecBrowser ==
  /\ InitWith({"stack"})
  /\ [][BrowserNext]_vars

SpecLineage ==
  /\ InitWith({"als"})
  /\ [][LineageNext]_vars

SpecHelpers ==
  /\ InitWith({"als"})
  /\ [][HelpersNext]_vars

SpecBudget ==
  /\ InitWith({"als"})
  /\ [][BudgetNext]_vars

SpecNest ==
  /\ InitWith({"als"})
  /\ [][NestNext]_vars

DirNext ==
  \/ \E p \in Procs : DirStartFlushing(p)
       /\ UNCHANGED <<ctxVars, wrapVars, bufVars, browserVars, lineageVars,
                      nestVars, entVars, tlVars, oscVars, serVars, pqVars,
                      esVars, rcVars, trVars>>
  \/ \E p \in Procs, size \in 1..MaxBatch : DirFlushToParquet(p, size)
       /\ UNCHANGED <<ctxVars, wrapVars, bufVars, browserVars, lineageVars,
                      nestVars, entVars, tlVars, oscVars, serVars, pqVars,
                      esVars, rcVars, trVars>>
  \/ \E f \in tracesDir : DirExpire(f)
       /\ UNCHANGED <<ctxVars, wrapVars, bufVars, browserVars, lineageVars,
                      nestVars, entVars, tlVars, oscVars, serVars, pqVars,
                      esVars, rcVars, trVars>>
  \/ DirQuery
       /\ UNCHANGED <<ctxVars, wrapVars, bufVars, browserVars, lineageVars,
                      nestVars, entVars, tlVars, oscVars, serVars, pqVars,
                      esVars, rcVars, trVars>>

SpecDir ==
  /\ InitWith({"als"})
  /\ [][DirNext]_vars

EntNext ==
  \/ \E rawType \in RawTypes, rawId \in RawIds : EntTrackEvent(rawType, rawId)
       /\ UNCHANGED <<ctxVars, wrapVars, bufVars, browserVars, lineageVars, nestVars,
                      dirVars, tlVars, oscVars, serVars, pqVars, esVars, rcVars, trVars>>
  \/ \E trackedTypes \in TrackedTypeLists : EntSelect(trackedTypes)
       /\ UNCHANGED <<ctxVars, wrapVars, bufVars, browserVars, lineageVars, nestVars,
                      dirVars, tlVars, oscVars, serVars, pqVars, esVars, rcVars, trVars>>

SpecEnt ==
  /\ InitWith({"als"})
  /\ [][EntNext]_vars

TlNext ==
  \/ \E entity_id \in TlEntityIds, snapshot \in SnapshotInputs,
        changes \in ChangesInputs : TlTrackEvent(entity_id, snapshot, changes)
       /\ UNCHANGED <<ctxVars, wrapVars, bufVars, browserVars, lineageVars, nestVars,
                      dirVars, entVars, oscVars, serVars, pqVars, esVars, rcVars, trVars>>
  \/ TlEntityTimeline
       /\ UNCHANGED <<ctxVars, wrapVars, bufVars, browserVars, lineageVars, nestVars,
                      dirVars, entVars, oscVars, serVars, pqVars, esVars, rcVars, trVars>>

SpecTimeline ==
  /\ InitWith({"als"})
  /\ [][TlNext]_vars

OscNext ==
  \/ \E entity_id \in OscEntityIds, v \in OscValues : OscTrackEvent(entity_id, v)
       /\ UNCHANGED <<ctxVars, wrapVars, bufVars, browserVars, lineageVars, nestVars,
                      dirVars, entVars, tlVars, serVars, pqVars, esVars, rcVars, trVars>>
  \/ \E min_flips \in MinFlips : OscDetect(min_flips)
       /\ UNCHANGED <<ctxVars, wrapVars, bufVars, browserVars, lineageVars, nestVars,
                      dirVars, entVars, tlVars, serVars, pqVars, esVars, rcVars, trVars>>

SpecOsc ==
  /\ InitWith({"als"})
  /\ [][OscNext]_vars

SerNext ==
  \E value \in SerInputs, opts \in SerOptions : Serialize(value, opts)
    /\ UNCHANGED <<ctxVars, wrapVars, bufVars, browserVars, lineageVars, nestVars,
                   dirVars, entVars, tlVars, oscVars, pqVars, esVars, rcVars, trVars>>

SpecSer ==
  /\ InitWith({"als"})
  /\ [][SerNext]_vars

PqNext ==
  \/ PqBufferSpan
       /\ UNCHANGED <<ctxVars, wrapVars, bufVars, browserVars, lineageVars, nestVars,
                 dirVars, entVars, tlVars, oscVars, serVars, esVars, rcVars, trVars>>
  \/ PqTimerDrain
       /\ UNCHANGED <<ctxVars, wrapVars, bufVars, browserVars, lineageVars, nestVars,
                 dirVars, entVars, tlVars, oscVars, serVars, esVars, rcVars, trVars>>
  \/ \E j \in PqJobs : PqAppend(j)
       /\ UNCHANGED <<ctxVars, wrapVars, bufVars, browserVars, lineageVars, nestVars,
                 dirVars, entVars, tlVars, oscVars, serVars, esVars, rcVars, trVars>>
  \/ \E j \in PqJobs : PqCopy(j)
       /\ UNCHANGED <<ctxVars, wrapVars, bufVars, browserVars, lineageVars, nestVars,
                 dirVars, entVars, tlVars, oscVars, serVars, esVars, rcVars, trVars>>
  \/ \E j \in PqJobs : PqDelete(j)
       /\ UNCHANGED <<ctxVars, wrapVars, bufVars, browserVars, lineageVars, nestVars,
                 dirVars, entVars, tlVars, oscVars, serVars, esVars, rcVars, trVars>>
  \/ \E j \in PqJobs : PqFlushFails(j)
       /\ UNCHANGED <<ctxVars, wrapVars, bufVars, browserVars, lineageVars, nestVars,
                 dirVars, entVars, tlVars, oscVars, serVars, esVars, rcVars, trVars>>

SpecPq ==
  /\ InitWith({"als"})
  /\ [][PqNext]_vars

EsNext ==
  \/ EsWrapCall
       /\ UNCHANGED <<ctxVars, wrapVars, bufVars, browserVars, lineageVars, nestVars,
                 dirVars, entVars, tlVars, oscVars, serVars, pqVars, rcVars, trVars>>
  \/ EsReceiveInbound
       /\ UNCHANGED <<ctxVars, wrapVars, bufVars, browserVars, lineageVars, nestVars,
                 dirVars, entVars, tlVars, oscVars, serVars, pqVars, rcVars, trVars>>
  \/ EsReceiveReturns
       /\ UNCHANGED <<ctxVars, wrapVars, bufVars, browserVars, lineageVars, nestVars,
                 dirVars, entVars, tlVars, oscVars, serVars, pqVars, rcVars, trVars>>
  \/ EsDetach
       /\ UNCHANGED <<ctxVars, wrapVars, bufVars, browserVars, lineageVars, nestVars,
                 dirVars, entVars, tlVars, oscVars, serVars, pqVars, rcVars, trVars>>
  \/ EsTrackEntity
       /\ UNCHANGED <<ctxVars, wrapVars, bufVars, browserVars, lineageVars, nestVars,
                 dirVars, entVars, tlVars, oscVars, serVars, pqVars, rcVars, trVars>>
  \/ \E spanId \in EsSpanIds : EsContinuationTracks(spanId)
       /\ UNCHANGED <<ctxVars, wrapVars, bufVars, browserVars, lineageVars, nestVars,
                 dirVars, entVars, tlVars, oscVars, serVars, pqVars, rcVars, trVars>>
  \/ EsFinalize
       /\ UNCHANGED <<ctxVars, wrapVars, bufVars, browserVars, lineageVars, nestVars,
                 dirVars, entVars, tlVars, oscVars, serVars, pqVars, rcVars, trVars>>

SpecEs ==
  /\ InitWith({"als"})
  /\ [][EsNext]_vars

RcNext ==
  \/ \E span_id \in RcSpanIds, at \in RcStartedAts : RcFlush(span_id, at)
       /\ UNCHANGED <<ctxVars, wrapVars, bufVars, browserVars, lineageVars, nestVars,
                 dirVars, entVars, tlVars, oscVars, serVars, pqVars, esVars, trVars>>
  \/ \E limit \in RcLimits : RcPoll(limit)
       /\ UNCHANGED <<ctxVars, wrapVars, bufVars, browserVars, lineageVars, nestVars,
                 dirVars, entVars, tlVars, oscVars, serVars, pqVars, esVars, trVars>>

SpecRecent ==
  /\ InitWith({"als"})
  /\ [][RcNext]_vars

TrNext ==
  \/ \E throws \in BOOLEAN : TrConnect(throws)
       /\ UNCHANGED <<ctxVars, wrapVars, bufVars, browserVars, lineageVars, nestVars,
                 dirVars, entVars, tlVars, oscVars, serVars, pqVars, esVars,
                 rcVars>>
  \/ \E k \in SocketIds : TrOnOpen(k)
       /\ UNCHANGED <<ctxVars, wrapVars, bufVars, browserVars, lineageVars, nestVars,
                 dirVars, entVars, tlVars, oscVars, serVars, pqVars, esVars,
                 rcVars>>
  \/ \E k \in SocketIds : TrClosing(k)
       /\ UNCHANGED <<ctxVars, wrapVars, bufVars, browserVars, lineageVars, nestVars,
                 dirVars, entVars, tlVars, oscVars, serVars, pqVars, esVars,
                 rcVars>>
  \/ \E k \in SocketIds : TrOnClose(k)
       /\ UNCHANGED <<ctxVars, wrapVars, bufVars, browserVars, lineageVars, nestVars,
                 dirVars, entVars, tlVars, oscVars, serVars, pqVars, esVars,
                 rcVars>>
  \/ \E throws \in BOOLEAN : TrTimerFires(throws)
       /\ UNCHANGED <<ctxVars, wrapVars, bufVars, browserVars, lineageVars, nestVars,
                 dirVars, entVars, tlVars, oscVars, serVars, pqVars, esVars,
                 rcVars>>

SpecTransport ==
  /\ InitWith({"als"})
  /\ [][TrNext]_vars

\* ------------------------------------------------------------------------
\* C1: every extract() run inside the dynamic extent of inject(c, body)
\* returns exactly c, also after body resumed from a suspension during
\* which other injected bodies were started, suspended or settled.
\* ------------------------------------------------------------------------
C1_ExtractSeesInjected == obs.kind = "extract" => obs.got = obs.want

\* ------------------------------------------------------------------------
\* C2: after an injected body settled, its caller sees the context that was
\* active right before the inject, and nothing of the settled call is left
\* in the propagation state.
\* ------------------------------------------------------------------------
C2_RestoredAfterSettle ==
  obs.kind = "settle" =>
    /\ obs.got = obs.want
    /\ obs.ctx \notin Range(callStack)
    /\ alsStore[obs.task] # obs.ctx

\* ------------------------------------------------------------------------
\* C3: in the explicit-stack strategy the stack holds exactly the contexts
\* of the calls still open, in the order they were pushed: a settling call
\* removes its own entry and no other.
\* ------------------------------------------------------------------------
OpenCtxs == UNION { { frames[t][i].ctx : i \in DOMAIN frames[t] } : t \in Tasks }

C3_OnlyOwnEntryRemoved ==
  strategy # "als" =>
    /\ Range(callStack) = OpenCtxs
    /\ \A i \in DOMAIN callStack : \A j \in DOMAIN callStack :
          i < j => callStack[i] < callStack[j]

\* ------------------------------------------------------------------------
\* C4: the wrapped call invokes the original exactly once with the same
\* receiver and arguments, gives the caller what the unwrapped call would
\* give (value, thrown value, settlement of the promise) and reports the
\* same arity, with tracing enabled or disabled, with or without a parent.
\* ------------------------------------------------------------------------
C4_WrapTransparent ==
  /\ call.phase # "idle" =>
       /\ call.invoked = 1
       /\ call.thisSeen = call.receiver
       /\ call.argsSeen = call.args
       /\ call.wrappedLength = call.fnLength
  /\ call.phase = "done" => call.outcome = origOutcome(call)

\* ------------------------------------------------------------------------
\* C5: the span of a settled wrapped call was finalized exactly once, was
\* handed to Persistence exactly once and was not touched afterwards.
\* ------------------------------------------------------------------------
SettledSpans ==
  { sid \in DOMAIN spans : ~(call.phase \in {"running", "pending"} /\ call.span = sid) }

C5_FinalizedAndHandedOnce ==
  \A sid \in SettledSpans :
    /\ spans[sid].finalized = 1
    /\ spans[sid].handed = 1
    /\ Len(SelectSeq(handedOver, LAMBDA x : x = sid)) = 1
    /\ ~spans[sid].touchedAfterHandover

\* ------------------------------------------------------------------------
\* C6: an open span has output and error both null; a completed or failed
\* span has exactly one of them non-null, whatever was returned or thrown.
\* ------------------------------------------------------------------------
C6_ExactlyOneOfOutputError ==
  \A sid \in DOMAIN spans :
    /\ ~spans[sid].ended => spans[sid].output = Null /\ spans[sid].error = Null
    /\ spans[sid].ended => (spans[sid].output = Null) # (spans[sid].error = Null)

\* ------------------------------------------------------------------------
\* C7: no fault inside the tracing runtime raises an exception into the
\* traced application: the host call ends as the unwrapped call would.
\* ------------------------------------------------------------------------
InternalFaults == {"TypeError"}

C7_FailOpen ==
  /\ raised \cap InternalFaults = {}
  /\ call.phase = "done" => call.outcome.value \notin InternalFaults

\* ------------------------------------------------------------------------
\* C8: in the Node buffer every span handed to bufferSpan is in the
\* in-memory buffer, in a batch whose flush is in flight, or in a batch
\* whose flush reported success; a failed flush puts its batch back.
\* ------------------------------------------------------------------------
C8_NoSpanLost ==
  \A s \in 1..nodeHanded :
    \/ s \in Range(nodeBuffer)
    \/ \E batch \in inFlight : s \in Range(batch)
    \/ s \in flushedOk

\* a flush failed, its batch is back in the buffer in front of a later
\* span, while another batch is in flight and a third was written
C8_Witness ==
  /\ lastFlush = "failed"
  /\ Len(nodeBuffer) >= 2
  /\ inFlight # {}
  /\ flushedOk # {}

\* ------------------------------------------------------------------------
\* C9: on the browser-to-collector path a batch whose send or whose write
\* failed is queued again, so every span handed to the browser buffer is
\* still in the browser buffer, on the wire, in the collector (buffer,
\* running flush, table) or in a parquet file.
\* ------------------------------------------------------------------------
C9_BatchRequeued ==
  \A s \in 1..browserHanded :
    \/ s \in Range(browserBuffer)
    \/ \E i \in DOMAIN wire : s \in Range(wire[i])
    \/ s \in Range(writerBuffer)
    \/ \E i \in DOMAIN flushJobs : s \in Range(flushJobs[i].batch)
    \/ s \in spansTable
    \/ s \in parquet

\* ------------------------------------------------------------------------
\* C10: along a causal chain of stamps and receives the hop of each stamp
\* is greater than the hop of the stamp it follows, and no context is the
\* result of more than max_hops replacements.
\* ------------------------------------------------------------------------
C10_HopStrictlyIncreases ==
  /\ \A lineage \in inFlightMsgs :
       lineage.follows.hop >= 0 => lineage.hop > lineage.follows.hop
  /\ \A p \in Procs : \A i \in DOMAIN ctxStack[p] :
       ctxStack[p][i].cause.n <= maxHops

\* the context runWithLineage installs for an accepted stamp
stampCtx(lineage) == [trace_id |-> lineage.trace_id, span_id |-> lineage.span_id]

\* the last helper call was runWithLineage on a valid stamp
lastRecvValid == lobs.op = "recv" /\ lobs.kind = "valid"

lastStamped == lobs.op = "stamp" /\ lobs.kind = "stamped"

lastRecvNoLineage == lobs.op = "recv" /\ lobs.kind \in {"nokey", "invalid"}

C14_StampOrNoOp ==
  lobs.op = "stamp" =>
    IF lobs.before = NoPair \/ ~lobs.blastOk \/ ~lobs.subject
      THEN lobs.kind = "unchanged" /\ lobs.stored = "none"
      ELSE /\ lobs.kind = "stamped"
           /\ stampCtx(lobs.lineage) = lobs.before
           /\ lobs.lineage.hop = lobs.hopBefore
           /\ lobs.lineage.max_hops = maxHops
           /\ lobs.stored = "sent"

\* ========================================================================
\* Queries over the persisted spans (packages/mcp-server/src/tools.ts and
\* the edge views of packages/mcp-server/src/db.ts)
\* ========================================================================
\* default depth of walkSchema
walkDepth == 5

\* the confidence column of the edge views, in tenths
confidence(evidence_kind) ==
  CASE evidence_kind = "exact" -> 10
    [] evidence_kind = "inferred" -> 5
    [] OTHER -> 0

\* callEdgesViewSql: one edge per span with a parent_id, in the trace of
\* the child
callEdgesViewSql(traceId) ==
  { [from_node_id |-> s.parent_id, to_node_id |-> s.span_id,
     edge_kind |-> "call", evidence_kind |-> "exact",
     confidence |-> 10, trace_id |-> s.trace_id] :
      s \in { x \in persistedSpans : x.parent_id # NoId /\ x.trace_id = traceId } }

\* lineageEdgesViewSql: one edge per entry of tags.lineage_recv, from the
\* span the entry names to the span that holds it, in the trace of the
\* holder
lineageEdgesViewSql(traceId) ==
  UNION { { [from_node_id |-> r.from_span, to_node_id |-> s.span_id,
             edge_kind |-> "lineage", evidence_kind |-> r.kind,
             confidence |-> confidence(r.kind), trace_id |-> s.trace_id] :
              r \in s.lineage_recv } :
          s \in { x \in persistedSpans : x.trace_id = traceId } }

\* loadCausalEdges({trace_id})
loadCausalEdges(traceId) ==
  callEdgesViewSql(traceId) \cup lineageEdgesViewSql(traceId)

\* the orders in which a statement without ORDER BY may return its rows
Perms(S) ==
  { f \in [1..Cardinality(S) -> S] : \A x \in S : \E i \in DOMAIN f : f[i] = x }

\* a walk that never stops at the requested depth
depthReachedNever(current, depth) == FALSE

\* if (current.depth >= params.depth) continue
depthReached(current, depth) == current.depth >= depth

\* the loop over the edges of the span taken from the queue: an edge whose
\* other end is not in spanById is skipped, an edge whose key is in seen is
\* skipped, every other edge gives a row and a queue entry
RECURSIVE visit(_, _, _, _, _, _)
visit(adj, current, acc, direction, spanById, at) ==
  IF at > Len(adj) THEN acc
  ELSE LET edge == adj[at]
           other == IF direction = "up" THEN edge.from_node_id ELSE edge.to_node_id
           key == <<direction, edge.from_node_id, edge.to_node_id, edge.edge_kind>>
       IN IF other \notin spanById \/ key \in acc.seen
            THEN visit(adj, current, acc, direction, spanById, at + 1)
            ELSE visit(adj, current,
                       [queue |-> Append(acc.queue,
                                         [id |-> other, depth |-> current.depth + 1]),
                        out |-> Append(acc.out,
                                 [span_id |-> other, via_edge |-> edge.edge_kind,
                                  evidence_kind |-> edge.evidence_kind,
                                  confidence |-> edge.confidence,
                                  direction |-> direction,
                                  depth |-> current.depth + 1,
                                  from_node_id |-> edge.from_node_id,
                                  to_node_id |-> edge.to_node_id]),
                        seen |-> acc.seen \cup {key}],
                       direction, spanById, at + 1)

\* the while loop of one direction: queue.shift(), the depth test, then the
\* incoming (up) or outgoing (down) edges of the span in the order of edges
RECURSIVE walkQueue(_, _, _, _, _)
walkQueue(acc, direction, depth, edges, spanById) ==
  IF acc.queue = <<>> THEN acc
  ELSE LET current == Head(acc.queue)
           rest == [acc EXCEPT !.queue = Tail(acc.queue)]
           incident(e) == IF direction = "up" THEN e.to_node_id = current.id
                                              ELSE e.from_node_id = current.id
       IN IF depthReached(current, depth)
            THEN walkQueue(rest, direction, depth, edges, spanById)
            ELSE walkQueue(visit(SelectSeq(edges, incident), current, rest,
                                 direction, spanById, 1),
                           direction, depth, edges, spanById)

Directions == {"up", "down", "both"}

\* the row of the start span
targetRow(span_id) ==
  [span_id |-> span_id, via_edge |-> "none", evidence_kind |-> "none",
   confidence |-> 10, direction |-> "target", depth |-> 0,
   from_node_id |-> span_id, to_node_id |-> span_id]

\* flightboxWalk({span_id, direction, depth}) when loadCausalEdges returned
\* edges: the rows above the start span, the start span, the rows below it;
\* spanById holds the spans of the start span's trace
flightboxWalk(span_id, direction, depth, edges) ==
  LET start == { s \in persistedSpans : s.span_id = span_id }
  IN IF start = {}
       THEN <<>>
       ELSE LET traceId == (CHOOSE s \in start : TRUE).trace_id
                spanById == { s.span_id : s \in { x \in persistedSpans :
                                                    x.trace_id = traceId } }
                first == <<[id |-> span_id, depth |-> 0]>>
                up == IF direction \in {"up", "both"}
                        THEN walkQueue([queue |-> first, out |-> <<>>, seen |-> {}],
                                       "up", depth, edges, spanById)
                        ELSE [queue |-> <<>>, out |-> <<>>, seen |-> {}]
                mid == [up EXCEPT !.out = Append(@, targetRow(span_id))]
                down == IF direction \in {"down", "both"}
                          THEN walkQueue([mid EXCEPT !.queue = first],
                                         "down", depth, edges, spanById)
                          ELSE mid
            IN down.out

\* the trace flightboxWalk scopes its edges to
walkTrace(span_id) ==
  (CHOOSE s \in persistedSpans : s.span_id = span_id).trace_id

\* ------------------------------------------------------------------------
\* C15: when a span Sq of one process received, within the hop budget, the
\* stamp made under span Sp of another process and both spans are
\* persisted, the upward walk from Sq includes Sp through a lineage edge
\* with evidence exact and confidence 1.0.
\* ------------------------------------------------------------------------
C15_WalkReachesSender ==
  \A sq \in persistedSpans : \A r \in sq.lineage_recv :
    \A sp \in persistedSpans :
      (sp.span_id = r.from_span /\ sp.proc # sq.proc /\ r.hop < maxHops) =>
        \A edges \in Perms(loadCausalEdges(walkTrace(sq.span_id))) :
          \E row \in Range(flightboxWalk(sq.span_id, "up", walkDepth, edges)) :
            /\ row.span_id = sp.span_id /\ row.direction = "up"
            /\ row.via_edge = "lineage" /\ row.evidence_kind = "exact"
            /\ row.confidence = 10

\* ------------------------------------------------------------------------
\* C16: a persisted span with a parent_id has the trace_id of its parent
\* whenever the parent is persisted too, also when the span was created
\* under a context installed by runWithLineage.
\* ------------------------------------------------------------------------
C16_ParentSameTrace ==
  \A s \in persistedSpans : \A q \in persistedSpans :
    (s.parent_id # NoId /\ q.span_id = s.parent_id) => q.trace_id = s.trace_id

\* a span created in the body of runWithLineage is persisted together with
\* its parent, the sender's span of the other process
C16_Witness ==
  \E s \in persistedSpans : \E q \in persistedSpans :
    /\ s.parent_id # NoId
    /\ q.span_id = s.parent_id
    /\ q.proc # s.proc
    /\ q.trace_id = s.trace_id

\* the episode that just ended was A calling B calling C, C threw and no
\* body returned
chainOfThreeThrew ==
  /\ nest = <<>>
  /\ nestCaller # NoOutcome
  /\ episode.calls = 3
  /\ episode.returns = 0
  /\ episode.thrown # "none"

\* ------------------------------------------------------------------------
\* C17: when wrapped A calls wrapped B which calls wrapped C and C throws,
\* exactly three spans are handed over, with one trace_id, A without
\* parent, B under A and C under B, the caller of A gets the value C threw,
\* and the error field of each span is the serialized value C threw.
\* ------------------------------------------------------------------------
C17_ThreeSpansSameError ==
  chainOfThreeThrew =>
    LET A == nestNext - 3
        B == nestNext - 2
        C == nestNext - 1
        mine == { i \in DOMAIN nestHanded : nestHanded[i].span_id \in {A, B, C} }
        sp(id) == CHOOSE x \in Range(nestHanded) : x.span_id = id
    IN /\ Cardinality(mine) = 3
       /\ { nestHanded[i].span_id : i \in mine } = {A, B, C}
       /\ sp(A).parent_id = NoParent.span_id
       /\ sp(B).parent_id = A
       /\ sp(C).parent_id = B
       /\ sp(B).trace_id = sp(A).trace_id
       /\ sp(C).trace_id = sp(A).trace_id
       /\ nestCaller = [kind |-> "throw", value |-> episode.thrown]
       /\ \A id \in {A, B, C} : sp(id).error = serialize(episode.thrown)

\* the context of the innermost call of chain t that is still open, the
\* one a call made by the running body of t is inside
enclosing(t) == Last(frames[t]).ctx

\* another chain holds a call that is suspended
suspendedElsewhere(t) ==
  \E u \in Tasks \ {t} : status[u] = "suspended" /\ frames[u] # <<>>

\* ------------------------------------------------------------------------
\* C18: while a call of another chain is suspended (and may never settle),
\* a call started by the body of an open call of the running chain gets
\* that open call as parent: the suspended call does not change the parent
\* of calls started outside it.
\* ------------------------------------------------------------------------
C18_SuspendedCallLeaksOnlyItself ==
  [][\A t \in Tasks :
       (/\ status[t] = "running"
        /\ suspendedElsewhere(t)
        /\ frames[t] # <<>>
        /\ Len(frames'[t]) = Len(frames[t]) + 1)
         => Last(frames'[t]).prior = enclosing(t)]_vars

\* ------------------------------------------------------------------------
\* C19: on every settlement path of a wrapped call the annotations, the
\* entity events and the lineage records of the span are each finalized
\* exactly once, in this order, and each writes its own key of span.tags.
\* ------------------------------------------------------------------------
C19_EachAccumulatorOnce ==
  (call.phase = "done" /\ call.enabled) =>
    /\ finalizeLog[call.span] = <<"annotations", "entities", "lineage">>
    /\ annotationsBySpanId[call.span] = "absent"
    /\ eventsBySpanId[call.span] = <<>>
    /\ call.span \notin lineageBySpanId

\* ------------------------------------------------------------------------
\* C20: no span holds or is persisted with more entity events than the
\* cap; a trackEntity call on a span that holds the cap is rejected and
\* leaves the list as it was, and a rejected event is in no list and in no
\* span's tags afterwards.
\* ------------------------------------------------------------------------
C20_EventCap ==
  /\ \A sid \in DOMAIN spans :
       /\ Len(eventsBySpanId[sid]) <= MAX_EVENTS_PER_SPAN
       /\ Len(spans[sid].tags.entities) <= MAX_EVENTS_PER_SPAN
       /\ \A e \in trackLog.rejected :
            /\ e \notin Range(eventsBySpanId[sid])
            /\ e \notin Range(spans[sid].tags.entities)
  /\ (trackLog.calls > 0 /\ Len(trackLog.before) >= MAX_EVENTS_PER_SPAN) =>
       ~trackLog.ok /\ trackLog.after = trackLog.before

\* a span was handed over with as many entity events as the cap allows
\* after a further event had been rejected
C20_Witness ==
  /\ trackLog.rejected # {}
  /\ \E sid \in DOMAIN spans :
       /\ spans[sid].handed > 0
       /\ Len(spans[sid].tags.entities) = MAX_EVENTS_PER_SPAN

\* how often accumulator name was finalized for span sid
finalizeCount(sid, name) ==
  Cardinality({ i \in DOMAIN finalizeLog[sid] : finalizeLog[sid][i] = name })

\* ------------------------------------------------------------------------
\* C21: when a wrapped call has settled, the entity store was finalized
\* exactly once for its span, the span's list is gone from the store, and
\* tags.entities holds the recorded events in recording order, none lost.
\* ------------------------------------------------------------------------
C21_EntitiesMergedOnce ==
  (call.phase = "done" /\ call.enabled) =>
    LET sid == call.span
        ent == spans[sid].tags.entities
    IN /\ finalizeCount(sid, "entities") = 1
       /\ eventsBySpanId[sid] = <<>>
       /\ \A i \in DOMAIN ent : \A j \in DOMAIN ent : i < j => ent[i] < ent[j]
       /\ \A e \in (1..trackLog.calls) \ trackLog.rejected :
            \E s \in DOMAIN spans : e \in Range(spans[s].tags.entities)

\* ------------------------------------------------------------------------
\* C22: once the lineage store finalized a span, it holds no sent or
\* received record and no inbound hop keyed by that span, whatever stamp or
\* receive calls happen later.
\* ------------------------------------------------------------------------
C22_NoLineageStateAfterFinalize ==
  \A s \in persistedSpans :
    /\ inboundHopBySpanId[s.proc][s.span_id] = 0
    /\ \A r \in recvLog \cup sendLog : ~(r.proc = s.proc /\ r.span_id = s.span_id)

\* ------------------------------------------------------------------------
\* C24: a batch file, once written, is never deleted by the runtime or by
\* the query engine: every file written so far is still in the directory,
\* so the rows a query can read only grow, also when several processes
\* share the directory and start at different times.
\* ------------------------------------------------------------------------
C24_WrittenFilesStay ==
  \A f \in dirWritten : rowsOf(f) \subseteq fromSpans(tracesDir)

\* ------------------------------------------------------------------------
\* C25: while tracing is disabled a call of a wrapped function runs the
\* original once with the caller's receiver and arguments and yields its
\* outcome; no span is created, no tracking entry is opened, no context is
\* injected and nothing is handed to the buffer.
\* ------------------------------------------------------------------------
C25_DisabledIsTransparent ==
  [][(~cfgEnabled /\ call.phase = "idle" /\ call'.phase # "idle") =>
       /\ call'.phase = "done"
       /\ call'.invoked = 1
       /\ call'.thisSeen = call'.receiver /\ call'.argsSeen = call'.args
       /\ call'.outcome = origOutcome(call')
       /\ call'.span = 0
       /\ UNCHANGED <<spans, annotationsBySpanId, eventsBySpanId, lineageBySpanId,
                      handedOver, raised, finalizeLog, nextSpan>>]_vars

\* a disabled call of a throwing function has run
C25_Witness ==
  /\ call.phase = "done" /\ ~call.enabled /\ call.invoked = 1
  /\ call.outcome.kind = "throw" /\ call.receiver = "objB"

\* ------------------------------------------------------------------------
\* C23: selectTrackedEntity returns the type and id of the latest recorded
\* event whose type is in the allow-list (of any event when the list is
\* empty), and is absent exactly when the span has no such event.
\* ------------------------------------------------------------------------
C23_LatestAllowedEvent ==
  LET events == entObs.events
      allowed == Range(entObs.trackedTypes)
      ok == { i \in DOMAIN events :
                allowed = {} \/ events[i].entity_type \in allowed }
  IN /\ (entObs.result = NoSubject) <=> (ok = {})
     /\ \A i \in ok :
          (\A m \in ok : m <= i) =>
            entObs.result = [type |-> events[i].entity_type,
                             id |-> events[i].entity_id]

\* the allow-list passed over the latest event and chose an earlier one of
\* another type
C23_Witness ==
  /\ Len(entObs.events) >= 2
  /\ entObs.trackedTypes # <<>>
  /\ entObs.result # NoSubject
  /\ entObs.result.type # entObs.events[Len(entObs.events)].entity_type
  /\ entObs.result.id # entObs.events[Len(entObs.events)].entity_id

\* the walks of a state: start span, direction, depth and row order of the
\* edge statement
walkDepths == 0..3

\* ------------------------------------------------------------------------
\* C27: a walk reports no causal edge (from, to, kind) more than once, in
\* every direction including both, also when the edges form a cycle.
\* ------------------------------------------------------------------------
C27_EdgeReportedOnce ==
  \A s \in persistedSpans : \A direction \in Directions : \A depth \in walkDepths :
    \A edges \in Perms(loadCausalEdges(s.trace_id)) :
      LET out == flightboxWalk(s.span_id, direction, depth, edges)
      IN \A i \in DOMAIN out : \A j \in DOMAIN out :
           (/\ i < j
            /\ out[i].direction # "target" /\ out[j].direction # "target") =>
             <<out[i].from_node_id, out[i].to_node_id, out[i].via_edge>> #
               <<out[j].from_node_id, out[j].to_node_id, out[j].via_edge>>

\* the rows of one direction of a walk result, in the order of the result
rowsOfDirection(out, direction) ==
  LET is(row) == row.direction = direction IN SelectSeq(out, is)

\* ------------------------------------------------------------------------
\* C26: a walk ends, also over cyclic edges; every hop it reports has a
\* distance between 1 and the requested depth, and the hops of one
\* direction come in non-decreasing distance.
\* ------------------------------------------------------------------------
C26_WalkBoundedBreadthFirst ==
  \A s \in persistedSpans : \A direction \in Directions : \A depth \in walkDepths :
    \A edges \in Perms(loadCausalEdges(s.trace_id)) :
      LET out == flightboxWalk(s.span_id, direction, depth, edges)
      IN /\ Len(out) >= 1
         /\ \A i \in DOMAIN out :
              out[i].direction # "target" => out[i].depth \in 1..depth
         /\ \A d \in {"up", "down"} :
              LET rows == rowsOfDirection(out, d)
              IN \A i \in DOMAIN rows : \A j \in DOMAIN rows :
                   i < j => rows[i].depth <= rows[j].depth

\* a call edge and a lineage edge form a cycle between two persisted spans,
\* and the walk from one of them reports hops at distance 1 and 2
C26_Witness ==
  \E s \in persistedSpans : \E t \in persistedSpans :
    /\ t.parent_id = s.span_id /\ t.trace_id = s.trace_id
    /\ \E r \in s.lineage_recv : r.from_span = t.span_id
    /\ \E edges \in Perms(loadCausalEdges(s.trace_id)) :
         LET out == flightboxWalk(s.span_id, "up", 2, edges)
         IN \E i \in DOMAIN out : out[i].depth = 2

\* started_at of a persisted span: createSpan reads the clock, and the
\* span ids of the model are given out in the order createSpan ran
started_at(s) == s.span_id

\* fromSpans(where, "started_at ASC") over the persisted spans in S
orderByStartedAt(S) ==
  CHOOSE f \in Perms(S) :
    \A i \in DOMAIN f : \A j \in DOMAIN f :
      i < j => started_at(f[i]) <= started_at(f[j])

\* loadCausalEdges() without a filter: the edges of every trace
loadAllCausalEdges ==
  UNION { loadCausalEdges(t) : t \in { s.trace_id : s \in persistedSpans } }

\* walk(parentId, depth) of flightboxChildren: the spans with that
\* parent_id in started_at order, each followed by its own children
RECURSIVE childrenWalk(_, _, _, _)
RECURSIVE childrenLoop(_, _, _, _, _)
childrenLoop(found, at, depth, maxDepth, acc) ==
  IF at > Len(found) THEN acc
  ELSE LET s == found[at]
       IN IF s.span_id \in acc.visited
            THEN childrenLoop(found, at + 1, depth, maxDepth, acc)
            ELSE childrenLoop(found, at + 1, depth, maxDepth,
                   childrenWalk(s.span_id, depth + 1, maxDepth,
                     [out |-> Append(acc.out,
                                [span_id |-> s.span_id, parent_id |-> s.parent_id,
                                 depth |-> depth, via_edge |-> "call"]),
                      visited |-> acc.visited \cup {s.span_id}]))

childrenWalk(parentId, depth, maxDepth, acc) ==
  IF depth > maxDepth THEN acc
  ELSE childrenLoop(orderByStartedAt({ s \in persistedSpans : s.parent_id = parentId }),
                    1, depth, maxDepth, acc)

\* flightboxChildren({span_id, depth}): the call descendants, then the
\* spans at the receiving end of a lineage edge from span_id
flightboxChildren(span_id, depth) ==
  LET lineageChildren == { e.to_node_id : e \in { x \in loadAllCausalEdges :
                             x.from_node_id = span_id /\ x.edge_kind = "lineage" } }
      maxDepth == IF depth > 1 THEN depth ELSE 1
      called == childrenWalk(span_id, 1, maxDepth, [out |-> <<>>, visited |-> {}]).out
      linked == orderByStartedAt({ s \in persistedSpans : s.span_id \in lineageChildren })
  IN called \o [i \in DOMAIN linked |->
                  [span_id |-> linked[i].span_id, parent_id |-> span_id,
                   depth |-> 1, via_edge |-> "lineage"]]

\* flightboxSiblings({span_id}): the spans with the parent_id of the span
flightboxSiblings(span_id) ==
  LET span == { s \in persistedSpans : s.span_id = span_id }
  IN IF span = {} \/ (CHOOSE s \in span : TRUE).parent_id = NoId
       THEN <<>>
       ELSE LET parentId == (CHOOSE s \in span : TRUE).parent_id
                siblings == orderByStartedAt({ s \in persistedSpans :
                                                 s.parent_id = parentId })
            IN [i \in DOMAIN siblings |->
                  [span_id |-> siblings[i].span_id,
                   is_self |-> siblings[i].span_id = span_id]]

\* the persisted span a result row names
spanOfRow(row) == CHOOSE s \in persistedSpans : s.span_id = row.span_id

inStartOrder(rows) ==
  \A i \in DOMAIN rows : \A j \in DOMAIN rows :
    i < j => started_at(spanOfRow(rows[i])) <= started_at(spanOfRow(rows[j]))

childrenDepths == 1..2

\* ------------------------------------------------------------------------
\* C28: the lists returned by children and by siblings are in
\* non-decreasing started_at order, for every depth, and also when the
\* children include spans reached over a lineage edge.
\* ------------------------------------------------------------------------
C28_ChildrenAndSiblingsInStartOrder ==
  /\ \A span_id \in LSpanIds : \A depth \in childrenDepths :
       inStartOrder(flightboxChildren(span_id, depth))
  /\ \A s \in persistedSpans : inStartOrder(flightboxSiblings(s.span_id))

\* the timeline rows of the same entity id before row i
earlierOfEntity(i) ==
  { j \in DOMAIN enriched : j < i /\ enriched[j].entity_id = enriched[i].entity_id }

\* ------------------------------------------------------------------------
\* C29: in an entity timeline an event that carries a snapshot and no
\* explicit changes is diffed against the immediately preceding event of
\* the same entity id: its diff holds exactly the keys whose values differ
\* between the two snapshots, with the old and the new value; without a
\* preceding event, or when the preceding event carries no snapshot to
\* compare with, it has no diff.
\* ------------------------------------------------------------------------
C29_DiffAgainstPrecedingEvent ==
  \A i \in DOMAIN enriched :
    (enriched[i].changes.kind = "null" /\ enriched[i].snapshot.kind = "object") =>
      LET earlier == earlierOfEntity(i) IN
      IF earlier = {} THEN enriched[i].diff = NullDiff
      ELSE LET j == CHOOSE k \in earlier : \A m \in earlier : m <= k
           IN IF enriched[j].snapshot.kind = "object"
                THEN enriched[i].diff = keyDiff(enriched[j].snapshot, enriched[i].snapshot)
                ELSE enriched[i].diff = NullDiff

\* ------------------------------------------------------------------------
\* C30: whenever an entity event carries explicit changes, the diff the
\* timeline reports for it is exactly those changes, whatever snapshots
\* the event and the events before it carry.
\* ------------------------------------------------------------------------
C30_ExplicitChangesWin ==
  \A i \in DOMAIN enriched :
    enriched[i].changes.kind # "null" => enriched[i].diff = enriched[i].changes

\* ------------------------------------------------------------------------
\* C31 (tools.ts detectEntityOscillation, detectSpanInputOscillation)
\* ------------------------------------------------------------------------
\* the events the last oscillation query saw
oscSeen == SubSeq(oscEvents, 1, oscResult.seen)

\* the values of one subject, in time order
valuesOf(entity_id) ==
  LET part == partitionOf(oscSeen, entity_id)
  IN [i \in DOMAIN part |-> part[i].field_value]

\* interior positions whose two neighbours are equal to each other and
\* different from the value at the position
reversalsOf(vals) ==
  Cardinality({ i \in 2..(Len(vals) - 1) :
                  vals[i - 1] = vals[i + 1] /\ vals[i - 1] # vals[i] })

oscReported(entity_id) ==
  \E r \in oscResult.rows : r.entity_id = entity_id

\* C31 as stated: a subject is reported exactly when its reversal count meets
\* the threshold. Violated: at threshold 0 a subject with no reversal meets
\* the threshold and is not reported.
C31_ReportedIffCountMeetsThreshold ==
  oscQueries > 0 =>
    \A e \in OscEntityIds :
      oscReported(e) <=> reversalsOf(valuesOf(e)) >= oscResult.min_flips

\* the subjects whose reversal count is at least one and meets the threshold
oscQualified ==
  { e \in OscEntityIds :
      /\ reversalsOf(valuesOf(e)) >= 1
      /\ reversalsOf(valuesOf(e)) >= oscResult.min_flips }

\* C31 amended: only subjects whose reversal count is at least one and meets
\* the threshold are reported, all of them when no more than 50 qualify, and
\* the reported count is the number of interior positions whose neighbours
\* are equal and differ from the position.
C31_ReportedIffCountMeetsFlooredThreshold ==
  oscQueries > 0 =>
    \A e \in OscEntityIds :
      /\ oscReported(e) => e \in oscQualified
      /\ (e \in oscQualified /\ Cardinality(oscQualified) <= OscLimit)
           => oscReported(e)
      /\ \A r \in oscResult.rows :
           r.entity_id = e => r.flip_count = reversalsOf(valuesOf(e))

\* [10, 8, 10, 8, 10] of one subject was queried at threshold 2 and reported
C31_Witness ==
  /\ oscQueries > 0
  /\ oscResult.min_flips = 2
  /\ valuesOf("e1") = <<10, 8, 10, 8, 10>>
  /\ oscReported("e1")

\* ------------------------------------------------------------------------
\* C32 (part_023 serializeValue)
\* ------------------------------------------------------------------------
\* the members of a sequence of one kind, in order
ofKind(items, kind) ==
  LET is(x) == x.kind = kind IN SelectSeq(items, is)

serializedArray == serCalls > 0 /\ serOpts.maxDepth >= 1

pqInFlight == UNION { Range(pqJobs[j].batch) : j \in PqJobs }
pqWritten == UNION pqFiles

\* C33: when two drains overlap, every span of both batches ends up in a
\* written batch file or back in the buffer: a span handed to the buffer is
\* in the buffer, in the batch of a flush still running, or in a file.
\* Violated: the DELETE of one flush removes the rows the other flush has
\* appended and not yet copied.
C33_OverlappingDrainsLoseNoSpan ==
  \A s \in pqHanded : s \in Range(pqBuffer) \cup pqInFlight \cup pqWritten

\* ------------------------------------------------------------------------
\* C34 (entity store: trackEvent, finalizeTracking; trackEntity)
\* ------------------------------------------------------------------------
\* the finalized spans whose tags.entities hold the event
esPersistedIn(ev) == { sid \in DOMAIN esTags : ev \in Range(esTags[sid]) }

\* nothing runs and nothing is left to run
esQuiet == esStack = <<>> /\ esContinuations = {}

\* C34: every entity event whose record call returned true is persisted in
\* tags.entities of exactly one span once everything has settled, and no
\* per-span entity list stays in the store once its span was finalized.
\* Violated: an event recorded in a receiveInbound body goes to a list under
\* the sender's span id, an event recorded by a continuation after its span
\* goes to a new list under the finalized span's id; neither list is ever
\* finalized.
C34_RecordedEventsPersistedOnce ==
  /\ esQuiet => \A ev \in esRecorded : Cardinality(esPersistedIn(ev)) = 1
  /\ \A sid \in DOMAIN esTags : esEvents[sid] = Absent

\* ------------------------------------------------------------------------
\* C35 (tools.ts flightboxRecent)
\* ------------------------------------------------------------------------
rcTimesReceived(s) == Cardinality({ i \in DOMAIN rcReceived : rcReceived[i] = s })

\* C35: a poller that passes the previous next_cursor receives every
\* persisted span exactly once, in (started_at, span_id) order: when a poll
\* reports nothing more, every span persisted by then was received once, and
\* the received spans are in order. Violated: a span flushed after a poll
\* with a started_at behind the cursor is never returned.
C35_PollerReceivesEverySpanOnce ==
  /\ \A i \in DOMAIN rcReceived, j \in DOMAIN rcReceived :
       i < j => rcBefore(rcReceived[i], rcReceived[j])
  /\ ~rcLast.has_more => \A s \in rcLast.persisted : rcTimesReceived(s) = 1

\* ------------------------------------------------------------------------
\* C36 (buffer.ts startFlushing, stopFlushing, drain, onShutdown)
\* ------------------------------------------------------------------------
\* C36: with transient write failures only, every span handed to bufferSpan
\* is eventually in a written batch file; stated for the spans handed while
\* the flush timer is set. Violated: the drain of onShutdown fails, the
\* batch is put back, and with the timer cleared and isShuttingDown set no
\* drain follows; a span buffered after shutdown below the batch size waits
\* for ever as well.
C36_EverySpanEventuallyWritten ==
  \A s \in 1..MaxSpans :
    (flushTimer /\ nodeHanded >= s) ~> (s \in flushedOk)

\* ------------------------------------------------------------------------
\* C37 (runWithLineage, recordRecv)
\* ------------------------------------------------------------------------
\* the last runWithLineage call accepted its stamp: body ran under the
\* stamp's (trace_id, span_id)
lastRecvAccepted ==
  /\ lastRecvValid
  /\ lobs.lineage.hop < lobs.lineage.max_hops
  /\ lobs.body = stampCtx(lobs.lineage)

\* C37: whenever receiveInbound replaces the context with a stamp's
\* (trace_id, span_id), an exact receive record is stored on a receiving
\* span, also when no span is active at the receiver or the active span was
\* finalized already. Violated: with no active context, and with an active
\* context whose span has no open tracking, the context is replaced and no
\* record is stored.
C37_AcceptedStampLeavesExactRecord ==
  lastRecvAccepted => lobs.stored = "exact"

\* ------------------------------------------------------------------------
\* C38 (runWithLineage, parseLineage)
\* ------------------------------------------------------------------------
\* C38 as stated: a receiver with hop budget N never replaces its context
\* for a stamp whose hop is N or more, whatever max_hops the stamp carries.
\* Violated: a stamp with hop N and max_hops N + 1 is accepted.
C38_ReceiverBudgetCapsHops ==
  (lastRecvValid /\ lobs.lineage.hop >= maxHops) => lobs.body = lobs.before

\* C38 amended: the budget that counts is the one the stamp carries: the
\* context is never replaced for a valid stamp with hop >= its max_hops and
\* is replaced for every valid stamp with hop < its max_hops; the receiver's
\* own budget is not consulted.
C38_StampBudgetCapsHops ==
  lastRecvValid =>
    lobs.body = IF lobs.lineage.hop >= lobs.lineage.max_hops
                THEN lobs.before
                ELSE stampCtx(lobs.lineage)

\* a stamp at the receiver's budget with a larger budget of its own was
\* accepted
C38_Witness ==
  /\ lastRecvValid
  /\ lobs.lineage.hop >= maxHops
  /\ lobs.lineage.hop < lobs.lineage.max_hops
  /\ lobs.body = stampCtx(lobs.lineage)
  /\ lobs.body # lobs.before

\* ------------------------------------------------------------------------
\* C39 (runWithLineage gap record, lineageEdgesViewSql, loadCausalEdges)
\* ------------------------------------------------------------------------
\* C39: no derived causal edge has the same span as sender and receiver, in
\* particular the gap record of a stamp that failed validation gives no
\* lineage edge from the receiving span to itself, and a walk never reports
\* its origin as its own ancestor or descendant. Violated: the gap record of
\* an invalid payload carries the receiving span's own id, and the edge
\* statement turns every receive record into an edge.
C39_NoSelfEdge ==
  \A s \in persistedSpans :
    /\ \A e \in loadCausalEdges(s.trace_id) : e.from_node_id # e.to_node_id
    /\ \A direction \in Directions :
         \A edges \in Perms(loadCausalEdges(s.trace_id)) :
           LET out == flightboxWalk(s.span_id, direction, walkDepth, edges)
           IN \A i \in DOMAIN out :
                out[i].direction # "target" => out[i].span_id # s.span_id

\* ------------------------------------------------------------------------
\* C40 (object.ts connectWebSocket, scheduleReconnect, configure)
\* ------------------------------------------------------------------------
\* C40: at most one WebSocket is open or connecting and the module's socket
\* reference points to it, at most one reconnect timer is pending, and the
\* close event of an older socket never clears the reference to a newer
\* socket. Violated: configure({wsUrl}) while the socket is closing makes a
\* second socket, the close event of the first sets the reference to null,
\* and the reconnect timer makes a third socket beside the second.
C40_OneSocketOneTimer ==
  /\ Cardinality(trLive(trSockets)) <= 1
  /\ \A k \in trLive(trSockets) : trWs = k
  /\ trPending <= 1

====
